---------------------------- MODULE Spec2Model ----------------------------
(***************************************************************************)
(* Verification model of team-manage: the payment order state machine      *)
(* (app/services/payment.py), the invite-record ledger                     *)
(* (app/services/invite_record.py) and the after-sales judgement           *)
(* (app/services/warranty.py).                                             *)
(*                                                                         *)
(* The database holds the committed rows.  Every request runs in its own   *)
(* SQLAlchemy session: a row it selects is a private snapshot, an          *)
(* attribute it assigns is written by the next commit (UPDATE ... SET the  *)
(* changed columns WHERE id = ...), and nothing checks that the row still  *)
(* has the value the session read.  Requests are cooperative tasks of one  *)
(* event loop and interleave at every await; one action of the model is    *)
(* the code between two awaits.  Time is counted in minutes.               *)
(***************************************************************************)
EXTENDS Integers, Sequences, FiniteSets, TLC

\* ------------------------------------------------------------------ bounds
NumProcs == 2    \* request slots that may be in flight together
NumTeams == 2    \* teams in the pool
MaxCalls == 2    \* requests started in one behaviour
MaxTicks == 1    \* advances of the clock in one behaviour
MaxGrantTime == 2  \* latest grant time handed to _judge_after_sales
MaxRecordCalls == 3  \* calls of create_invite_record in one behaviour
NumWarrantyTeams == 3  \* teams of the warranty specification
MaxLedger == 2  \* rows of invite_records at which a grant or a reinvite still starts
MaxWarrantyCalls == 2  \* warranty requests started in one behaviour
MaxQueries == 1  \* of them in the specification of the queries
MaxWarrantyTicks == 1  \* advances of the clock in the warranty specification
MaxPageCalls == 1       \* requests for the invite records page
MaxPage == 2            \* largest page number asked for
PerPage == 2            \* rows per page
MaxQueryRows == 7       \* rows of invite_records while the page is served
GraceStep == 10         \* seconds between two looks at the clock of wait_for
MaxMigrations == 3      \* starts of the application in one behaviour

Procs  == 1..NumProcs
Teams  == 1..NumTeams
Orders == {"ORD1", "ORD2"}

\* ---------------------------------------------------------- program values
ORDER_EXPIRE_MINUTES == 30
WARRANTY_DAYS == 30
MinutesPerDay == 24 * 60

NoTeam == 0          \* team_id IS NULL
NoTime == -1         \* a DATETIME column that IS NULL
MerchantKey == "KEY"
MerchantId == "1001"
SiteDomain == "https://site"
TradeNo == "T1"

\* A team's max_members (seats) and the order of the teams by expires_at.
max_members(t) == t
team_expires_at(t) == t

Email(o) == IF o = "ORD1" THEN "a@x.com" ELSE "b@x.com"

VARIABLES
    now,          \* get_now()
    mapay_key,    \* the configured merchant key ("" when not configured)
    mapay_id,     \* the configured merchant id ("" when not configured)
    mapay_domain, \* the configured site domain ("" when not configured)
    db_team,      \* table teams: committed rows
    db_order,     \* table payment_orders: committed rows
    db_ledger,    \* table invite_records: committed rows, in insertion order
    pc,           \* where each request is (the await it is suspended at)
    req,          \* each request's arguments
    sess,         \* each request's session: snapshots and pending changes
    last,         \* the result of the request that returned last
    invited,      \* per team: invites the membership provider accepted
    granted,      \* per order and caller: invites the provider accepted on its behalf
    calls,        \* requests started so far
    ticks,        \* clock advances so far
    judge,        \* one call of _judge_after_sales: its arguments and result
    verify,       \* one call of _verify_sign or _generate_sign: arguments, result
    db_redemption, \* table redemption_records (grants older than invite_records)
    lifespan      \* the application's lifespan: its position, the background tasks

vars == <<now, mapay_key, mapay_id, mapay_domain, db_team, db_order, db_ledger, pc, req, sess, last,
          invited, granted, calls, ticks, judge, verify, db_redemption,
          lifespan>>

db == <<db_team, db_order, db_ledger>>

config == <<mapay_id, mapay_key, mapay_domain>>

\* ------------------------------------------------------ callback signature
\* hashlib.md5 as an ideal digest: equal digests come from equal strings.
Md5(str) == <<"md5", str>>

\* params.get(k, ''): a parameter that was not sent reads as the empty string.
Get(params, k) == IF k \in DOMAIN params THEN params[k] ELSE ""

\* params.get('sign', ''); the empty string is written <<>> here.
GetSign(params) == IF "sign" \in DOMAIN params THEN params["sign"] ELSE <<>>

\* A string as the sequence of its pieces: concatenation is \o, so that two
\* different splits of one text are the same string.
Tok(v) ==
    CASE v = ""        -> <<>>
      [] v = "KEY"     -> <<"K", "EY">>
      [] v = "alipayK" -> <<"alipay", "K">>
      [] OTHER         -> <<v>>

\* The string with trade_no left out.
SignStr_six(params, key) ==
    <<"money=">> \o Tok(Get(params, "money"))
      \o <<"&name=">> \o Tok(Get(params, "name"))
      \o <<"&out_trade_no=">> \o Tok(Get(params, "out_trade_no"))
      \o <<"&pid=">> \o Tok(Get(params, "pid"))
      \o <<"&trade_status=">> \o Tok(Get(params, "trade_status"))
      \o <<"&type=">> \o Tok(Get(params, "type"))
      \o Tok(key)

\* The string _verify_sign digests: seven fields in fixed order, then the key.
SignStr(params, key) ==
    <<"money=">> \o Tok(Get(params, "money"))
      \o <<"&name=">> \o Tok(Get(params, "name"))
      \o <<"&out_trade_no=">> \o Tok(Get(params, "out_trade_no"))
      \o <<"&pid=">> \o Tok(Get(params, "pid"))
      \o <<"&trade_no=">> \o Tok(Get(params, "trade_no"))
      \o <<"&trade_status=">> \o Tok(Get(params, "trade_status"))
      \o <<"&type=">> \o Tok(Get(params, "type"))
      \o Tok(key)

\* A verification that only requires a sign to be present.
_verify_sign_any(params, key) == GetSign(params) # <<>>

_verify_sign(params, key) == GetSign(params) = Md5(SignStr(params, key))

\* The events the payment provider, or anybody else, may deliver.
EventFields ==
    [money : {"19.90"}, name : {"vip"}, out_trade_no : Orders \cup {""},
     pid : {"1001"}, trade_no : {TradeNo},
     trade_status : {"TRADE_SUCCESS", "WAIT_BUYER_PAY"}, type : {"alipay"}]

WithSign(f, s) ==
    [money |-> f.money, name |-> f.name, out_trade_no |-> f.out_trade_no,
     pid |-> f.pid, trade_no |-> f.trade_no, trade_status |-> f.trade_status,
     type |-> f.type, sign |-> s]

Signs(f) == {Md5(SignStr(f, MerchantKey)), Md5(SignStr(f, "guess")), <<>>}

Events == UNION {{WithSign(f, s) : s \in Signs(f)} : f \in EventFields}

NoEvent == WithSign(CHOOSE f \in EventFields : f.out_trade_no = "", <<>>)

NoVerification ==
    [params |-> NoEvent, key |-> "", called |-> FALSE, result |-> FALSE]

\* ------------------------------------------------------ _judge_after_sales
timedelta_days(d) == d * MinutesPerDay

\* The judgement with the window closed at its last instant (>= for >).
_judge_after_sales_closed(invited_at, team_status, at) ==
    IF invited_at = NoTime
      THEN [status |-> "unknown", can_reuse |-> FALSE, warranty_valid |-> FALSE,
            expires_at |-> NoTime]
    ELSE LET expires_at == invited_at + timedelta_days(WARRANTY_DAYS) IN
         IF at >= expires_at
           THEN [status |-> "expired", can_reuse |-> FALSE,
                 warranty_valid |-> FALSE, expires_at |-> expires_at]
         ELSE IF team_status = "banned"
           THEN [status |-> "after_sales_available", can_reuse |-> TRUE,
                 warranty_valid |-> TRUE, expires_at |-> expires_at]
         ELSE [status |-> "normal", can_reuse |-> FALSE,
               warranty_valid |-> TRUE, expires_at |-> expires_at]

\* warranty.py lines 160-196, with get_now() = at; invited_at may be missing.
_judge_after_sales(invited_at, team_status, at) ==
    IF invited_at = NoTime
      THEN [status |-> "unknown", can_reuse |-> FALSE, warranty_valid |-> FALSE,
            expires_at |-> NoTime]
    ELSE LET expires_at == invited_at + timedelta_days(WARRANTY_DAYS) IN
         IF at > expires_at
           THEN [status |-> "expired", can_reuse |-> FALSE,
                 warranty_valid |-> FALSE, expires_at |-> expires_at]
         ELSE IF team_status = "banned"
           THEN [status |-> "after_sales_available", can_reuse |-> TRUE,
                 warranty_valid |-> TRUE, expires_at |-> expires_at]
         ELSE [status |-> "normal", can_reuse |-> FALSE,
               warranty_valid |-> TRUE, expires_at |-> expires_at]

NoJudgement ==
    [invited_at |-> NoTime, team_status |-> "", at |-> 0, called |-> FALSE,
     result |-> _judge_after_sales(NoTime, "", 0)]

\* ------------------------------------------------------------------- rows
NoOrder ==
    [status |-> "none", trade_no |-> "", paid_at |-> NoTime,
     redeemed_at |-> NoTime, team_id |-> NoTeam, expires_at |-> NoTime]

NoRequest == [kind |-> "none", order_no |-> "", params |-> NoEvent, method |-> ""]

NoSession ==
    [seen |-> "", o_status |-> "", paid_at |-> NoTime, redeemed_at |-> NoTime,
     team_id |-> NoTeam, t_members |-> 0, t_status |-> "", add_record |-> FALSE]

\* What a request returned: success and error as in the code's result dict;
\* invite says how far the grant went (none, failed, sent); seen is the order
\* status the request read, status the one get_order_status reports.
NoResult ==
    [kind |-> "none", order_no |-> "", success |-> FALSE, error |-> "",
     invite |-> "none", seen |-> "", status |-> "", team_id |-> NoTeam,
     method |-> "", response |-> ""]

\* A row of invite_records.
Entry(email, source_type, source_code, order_no, team_id, invited_at) ==
    [email |-> email, source_type |-> source_type, source_code |-> source_code,
     order_no |-> order_no, team_id |-> team_id, invited_at |-> invited_at]

\* The row handle_notify and manual_redeem record for order o.
InviteRecord(o, t, at) == Entry(Email(o), "payment", "", o, t, at)

\* main.py lines 132-196: the background tasks of the lifespan, in the order
\* the shutdown handles them.
Tasks == <<"auto_sync", "expired_member_cleanup">>

\* The application while it serves requests (line 196), both background
\* tasks waiting for their next run; outcome is how the last run of each
\* task's job ended.
Serving ==
    [pc |-> "serving", current |-> 1,
     task |-> [i \in 1..Len(Tasks) |-> "waiting"],
     stop_event |-> [i \in 1..Len(Tasks) |-> FALSE],
     outcome |-> [i \in 1..Len(Tasks) |-> "none"],
     elapsed |-> 0, db_closed |-> FALSE]

InitProgram ==
    /\ now = 0
    /\ lifespan = Serving
    /\ mapay_key \in {MerchantKey, ""}
    /\ mapay_id = MerchantId
    /\ mapay_domain = SiteDomain
    /\ db_team = [t \in Teams |->
                    [status |-> "active", current_members |-> 0,
                     max_members |-> max_members(t)]]
    /\ db_order = [o \in Orders |-> NoOrder]
    /\ db_ledger = <<>>
    /\ pc = [p \in Procs |-> "idle"]
    /\ req = [p \in Procs |-> NoRequest]
    /\ sess = [p \in Procs |-> NoSession]
    /\ last = NoResult
    /\ invited = [t \in Teams |-> 0]
    /\ granted = [o \in Orders |-> [notify |-> 0, manual |-> 0]]
    /\ calls = 0
    /\ ticks = 0

Init ==
    /\ InitProgram
    /\ judge = NoJudgement
    /\ verify = NoVerification
    /\ db_redemption = <<>>

\* ------------------------------------------------------------ request slots
Free(p) == pc[p] = "idle"

\* A request arrives and takes the first free slot, with a session of its own.
Begin(p) ==
    /\ Free(p)
    /\ \A q \in Procs : q < p => ~Free(q)
    /\ calls < MaxCalls
    /\ calls' = calls + 1

\* The arrived request r reaches its first await.
Start(p, r, at) ==
    /\ req' = [req EXCEPT ![p] = r]
    /\ pc' = [pc EXCEPT ![p] = at]
    /\ UNCHANGED <<sess, last>>

\* The request goes on to its next await with session s.
Goto(p, at, s) ==
    /\ pc' = [pc EXCEPT ![p] = at]
    /\ sess' = [sess EXCEPT ![p] = s]
    /\ UNCHANGED <<req, last>>

\* A notify route that answers "success" whatever the handler returned.
notify_response_always(result_success) == "success"

\* routes/payment.py lines 127-136 and 164-172: the text the notify route
\* answers with; an exception is a result without success.
notify_response(result_success) ==
    IF result_success THEN "success" ELSE "fail"

\* Request r of slot p returns: its session is closed and what it had not
\* committed is dropped.
Finish(p, r, ok, err, inv, seen) ==
    /\ pc' = [pc EXCEPT ![p] = "idle"]
    /\ req' = [req EXCEPT ![p] = NoRequest]
    /\ sess' = [sess EXCEPT ![p] = NoSession]
    /\ last' = [kind |-> r.kind, order_no |-> r.order_no,
                success |-> ok, error |-> err, invite |-> inv, seen |-> seen,
                status |-> IF r.kind = "status" /\ ok
                             THEN (IF sess[p].o_status # "" THEN sess[p].o_status
                                   ELSE seen)
                             ELSE "",
                team_id |-> IF inv = "sent" THEN sess[p].team_id ELSE NoTeam,
                method |-> r.method,
                response |-> IF r.kind = "notify" THEN notify_response(ok) ELSE ""]

\* ------------------------------------------------------------ create_order
\* The order row is inserted by the one commit of create_order (lines
\* 188-203); the order number is fresh, so no other request can refer to the
\* row before it.  Lines 147-152: nothing is created without the merchant key.
\* str.rstrip("/") of line 51 on the domains of the model.
rstrip(domain) == IF domain = "/" THEN "" ELSE domain

\* Lines 36-53: what _get_config returns of the merchant settings.
_get_config ==
    [mapay_id |-> mapay_id, mapay_key |-> mapay_key,
     mapay_domain |-> rstrip(mapay_domain)]

\* A configuration check that looks at the merchant key alone.
create_order_config_key_only ==
    IF _get_config.mapay_key = "" THEN "config" ELSE ""

\* Lines 146-158: the error create_order returns for an incomplete
\* configuration, "" when the configuration is complete.
create_order_config ==
    IF _get_config.mapay_id = "" \/ _get_config.mapay_key = "" THEN "config"
    ELSE IF _get_config.mapay_domain = "" THEN "config_domain"
    ELSE ""

create_order(o) ==
    /\ db_order[o].status = "none"
    /\ create_order_config = ""
    /\ db_order' = [db_order EXCEPT ![o] =
                      [NoOrder EXCEPT !.status = "pending",
                                      !.expires_at = now + ORDER_EXPIRE_MINUTES]]
    /\ UNCHANGED <<db_redemption, verify, judge, now, config, lifespan, db_team, db_ledger, pc, req, sess, last,
                   invited, granted, calls, ticks>>

\* create_order with its result (lines 139-224): the configuration check,
\* then the insert of the order under a fresh order number.
create_order_request(o) ==
    /\ db_order[o].status = "none"
    /\ IF create_order_config # ""
         THEN /\ db_order' = db_order
              /\ last' = [NoResult EXCEPT !.kind = "create",
                                          !.error = create_order_config]
         ELSE /\ db_order' = [db_order EXCEPT ![o] =
                                [NoOrder EXCEPT !.status = "pending",
                                                !.expires_at = now + ORDER_EXPIRE_MINUTES]]
              /\ last' = [NoResult EXCEPT !.kind = "create", !.order_no = o,
                                          !.success = TRUE, !.status = "pending"]
    /\ UNCHANGED <<db_redemption, verify, judge, now, config, lifespan, db_team, db_ledger, pc, req, sess,
                   invited, granted, calls, ticks>>

\* ----------------------------------------------------------- handle_notify
\* The callback arrives; lines 255-292: trade_status, _get_config, the
\* signature, the order number.  (_get_config is an await, but it reads only
\* the configuration, which no operation of the model changes.)
handle_notify_begin(p, method, params) ==
    /\ Begin(p)
    /\ LET r == [kind |-> "notify", order_no |-> Get(params, "out_trade_no"),
                 params |-> params, method |-> method] IN
       IF Get(params, "trade_status") # "TRADE_SUCCESS"
         THEN Finish(p, r, FALSE, "trade_status", "none", "")
       ELSE IF mapay_key = ""
         THEN Finish(p, r, FALSE, "config", "none", "")
       ELSE IF ~_verify_sign(params, mapay_key)
         THEN Finish(p, r, FALSE, "sign", "none", "")
       ELSE IF Get(params, "out_trade_no") = ""
         THEN Finish(p, r, FALSE, "no_order_no", "none", "")
       ELSE Start(p, r, "n_order")
    /\ UNCHANGED <<db_redemption, verify, judge, now, config, lifespan, db, invited, granted, ticks>>

\* How an event reaches the route: in the query string, or in a body that
\* is a form or a JSON document.
Deliveries == {"query", "form", "json"}

NoParams == [k \in {} |-> ""]

\* routes/payment.py line 122 and lines 149-158: GET reads the query string;
\* POST reads the form, when request.form() raises the JSON document, and
\* when request.json() raises too the query string.  request.form() returns
\* an empty form for a body that is not a form, or raises (form_raises),
\* depending on the installation; request.json() raises unless the body is
\* a JSON document.
notify_params(method, delivery, ev, form_raises) ==
    IF method = "GET"
      THEN (IF delivery = "query" THEN ev ELSE NoParams)
    ELSE IF delivery = "form" /\ ~form_raises THEN ev
    ELSE IF ~form_raises THEN NoParams
    ELSE IF delivery = "json" THEN ev
    ELSE IF delivery = "query" THEN ev
    ELSE NoParams

\* The requests the notify route may receive: the method and the
\* parameters it hands to handle_notify.
Arrivals ==
    {[method |-> method,
      params |-> notify_params(method, delivery, ev, form_raises)] :
        method \in {"GET", "POST"}, delivery \in Deliveries, ev \in Events,
        form_raises \in BOOLEAN}

\* payment_notify_get / payment_notify_post.
payment_notify(p, arrival) ==
    handle_notify_begin(p, arrival.method, arrival.params)

\* handle_notify that refuses a pending order whose expires_at has passed.
handle_notify_order_expiring(p) ==
    /\ pc[p] = "n_order"
    /\ LET order == db_order[req[p].order_no] IN
       \E raised \in BOOLEAN :
       IF raised
         THEN Finish(p, req[p], FALSE, "exception", "none", "")
       ELSE IF order.status = "none"
         THEN Finish(p, req[p], FALSE, "order_not_found", "none", order.status)
       ELSE IF order.status = "paid"
         THEN Finish(p, req[p], TRUE, "", "none", order.status)
       ELSE IF order.status \notin {"pending"} \/ now > order.expires_at
         THEN Finish(p, req[p], FALSE, "status_abnormal", "none", order.status)
       ELSE Goto(p, "n_commit", [sess[p] EXCEPT !.seen = order.status,
                                                !.o_status = "paid",
                                                !.paid_at = now])
    /\ UNCHANGED <<db_redemption, verify, judge, now, config, lifespan, db, invited, granted, calls, ticks>>

\* Lines 294-324: select the order, check its status, mark it paid in the
\* session (the commit is the next await).  When the select raises, lines
\* 370-376 roll back and return a failure.
handle_notify_order(p) ==
    /\ pc[p] = "n_order"
    /\ LET order == db_order[req[p].order_no] IN
       \E raised \in BOOLEAN :
       IF raised
         THEN Finish(p, req[p], FALSE, "exception", "none", "")
       ELSE IF order.status = "none"
         THEN Finish(p, req[p], FALSE, "order_not_found", "none", order.status)
       ELSE IF order.status = "paid"
         THEN Finish(p, req[p], TRUE, "", "none", order.status)
       ELSE IF order.status \notin {"pending"}
         THEN Finish(p, req[p], FALSE, "status_abnormal", "none", order.status)
       ELSE Goto(p, "n_commit", [sess[p] EXCEPT !.seen = order.status,
                                                !.o_status = "paid",
                                                !.paid_at = now])
    /\ UNCHANGED <<db_redemption, verify, judge, now, config, lifespan, db, invited, granted, calls, ticks>>

\* Line 326: commit of status, trade_no and paid_at.
handle_notify_commit(p) ==
    /\ pc[p] = "n_commit"
    /\ db_order' = [db_order EXCEPT
                      ![req[p].order_no].status = sess[p].o_status,
                      ![req[p].order_no].trade_no = Get(req[p].params, "trade_no"),
                      ![req[p].order_no].paid_at = sess[p].paid_at]
    /\ Goto(p, "i_select", sess[p])
    /\ UNCHANGED <<db_redemption, verify, judge, now, config, lifespan, db_team, db_ledger, invited, granted, calls, ticks>>

\* ------------------------------------------------------ _invite_user_to_team
\* redeem_flow_service.select_team_auto: the team with the soonest expires_at
\* among those with status active and a free seat; NoTeam when there is none.
select_team_auto(teams) ==
    LET cand == {t \in Teams : /\ teams[t].status = "active"
                               /\ teams[t].current_members < teams[t].max_members}
    IN IF cand = {} THEN NoTeam
       ELSE CHOOSE t \in cand : \A u \in cand : team_expires_at(t) <= team_expires_at(u)

\* A caller that drops the error of a failed invite_result.
InviteFailed_silent(p, err) ==
    Finish(p, req[p], req[p].kind = "notify", "", "none", sess[p].seen)

\* What the caller makes of a failed invite_result: handle_notify (lines
\* 361-368) still answers success, manual_redeem (line 624) returns it.
InviteFailed(p, err) ==
    Finish(p, req[p], req[p].kind = "notify", err, "failed", sess[p].seen)

\* Lines 399-406.
_invite_select(p) ==
    /\ pc[p] = "i_select"
    /\ LET t == select_team_auto(db_team) IN
       IF t = NoTeam
         THEN InviteFailed(p, "no_team")
         ELSE Goto(p, "i_team", [sess[p] EXCEPT !.team_id = t])
    /\ UNCHANGED <<db_redemption, verify, judge, now, config, lifespan, db, invited, granted, calls, ticks>>

\* Lines 410-442: select the team row, check it, decrypt its token.
_invite_team(p) ==
    /\ pc[p] = "i_team"
    /\ LET team == db_team[sess[p].team_id] IN
       IF team.status # "active"
         THEN InviteFailed(p, "team_status")
       ELSE IF team.current_members >= team.max_members
         THEN InviteFailed(p, "team_full")
       ELSE \E decrypted \in BOOLEAN :
              IF ~decrypted
                THEN InviteFailed(p, "decrypt")
                ELSE Goto(p, "i_send",
                          [sess[p] EXCEPT !.t_members = team.current_members,
                                          !.t_status = team.status])
    /\ UNCHANGED <<db_redemption, verify, judge, now, config, lifespan, db, invited, granted, calls, ticks>>

\* The session's team row after lines 456-458.
TeamAfterInvite(members, status, max) ==
    [current_members |-> members + 1,
     status |-> IF members + 1 >= max THEN "full" ELSE status]

\* Lines 444-458: chatgpt_service.send_invite answers; on success the
\* session's team row is incremented (the commit is the next await).
_invite_send(p) ==
    /\ pc[p] = "i_send"
    /\ \E accepted \in BOOLEAN :
         IF ~accepted
           THEN /\ InviteFailed(p, "provider")
                /\ UNCHANGED <<invited, granted>>
           ELSE LET t == sess[p].team_id
                    after == TeamAfterInvite(sess[p].t_members, sess[p].t_status,
                                             db_team[t].max_members)
                IN /\ Goto(p, "i_commit",
                           [sess[p] EXCEPT !.t_members = after.current_members,
                                           !.t_status = after.status])
                   /\ invited' = [invited EXCEPT ![t] = @ + 1]
                   /\ granted' = [granted EXCEPT ![req[p].order_no][req[p].kind] = @ + 1]
    /\ UNCHANGED <<db_redemption, verify, judge, now, config, lifespan, db, calls, ticks>>

\* Line 459: commit of the team row; then lines 335-338 (599-601) mark the
\* order redeemed in the session.
_invite_commit(p) ==
    /\ pc[p] = "i_commit"
    /\ db_team' = [db_team EXCEPT
                     ![sess[p].team_id].current_members = sess[p].t_members,
                     ![sess[p].team_id].status = sess[p].t_status]
    /\ Goto(p, "r_record", [sess[p] EXCEPT !.o_status = "redeemed",
                                           !.redeemed_at = now])
    /\ UNCHANGED <<db_redemption, verify, judge, now, config, lifespan, db_order, db_ledger, invited, granted, calls, ticks>>

\* ------------------------------------------------------ create_invite_record
\* Lines 111-119: the payment entries already stored for an order number.
PaymentEntries(ledger, o) ==
    {i \in 1..Len(ledger) : /\ ledger[i].source_type = "payment"
                            /\ ledger[i].order_no = o}

\* create_invite_record that never adds the entry to the session.
create_invite_record_none(p) ==
    /\ pc[p] = "r_record"
    /\ Goto(p, "r_commit", [sess[p] EXCEPT !.add_record = FALSE])
    /\ UNCHANGED <<db_redemption, verify, judge, now, config, lifespan, db, invited, granted, calls, ticks>>

SUPPORTED_INVITE_SOURCE_TYPES ==
    {"redeem_code", "payment", "after_sales", "admin_manual"}

\* invite_record.py lines 102-156 on the rows the session sees: the
\* source_type check, the lookup for payment (scalar_one_or_none() raises on
\* more than one row, which the except turns into a failure), the new row.
create_invite_record_in(ledger, record) ==
    IF record.source_type \notin SUPPORTED_INVITE_SOURCE_TYPES
      THEN [success |-> FALSE, created |-> FALSE, existing |-> 0]
    ELSE IF record.source_type = "payment" /\ record.order_no # ""
            /\ PaymentEntries(ledger, record.order_no) # {}
      THEN IF Cardinality(PaymentEntries(ledger, record.order_no)) > 1
             THEN [success |-> FALSE, created |-> FALSE, existing |-> 0]
             ELSE [success |-> TRUE, created |-> FALSE,
                   existing |-> CHOOSE i \in PaymentEntries(ledger, record.order_no) : TRUE]
    ELSE [success |-> TRUE, created |-> TRUE, existing |-> 0]

\* Called at payment.py lines 340-357 (603-620): an existing entry is
\* returned, otherwise a new one is added to the session; when the call
\* fails, the caller rolls back and returns the failure.
create_invite_record(p) ==
    /\ pc[p] = "r_record"
    /\ LET r == create_invite_record_in(
                    db_ledger,
                    InviteRecord(req[p].order_no, sess[p].team_id,
                                 sess[p].redeemed_at))
       IN  \E db_error \in BOOLEAN :
             IF db_error \/ ~r.success
               THEN Finish(p, req[p], FALSE, "invite_record", "sent", sess[p].seen)
               ELSE Goto(p, "r_commit", [sess[p] EXCEPT !.add_record = r.created])
    /\ UNCHANGED <<db_redemption, verify, judge, now, config, lifespan, db, invited,
                   granted, calls, ticks>>

\* Line 359 (622) with an upsert in place of the insert: the stored payment
\* entries of the order are overwritten by the new entry.
redeem_commit_upsert(p) ==
    /\ pc[p] = "r_commit"
    /\ LET o == req[p].order_no
           entry == InviteRecord(o, sess[p].team_id, sess[p].redeemed_at)
       IN
       /\ db_order' = [db_order EXCEPT ![o].status = sess[p].o_status,
                                       ![o].redeemed_at = sess[p].redeemed_at,
                                       ![o].team_id = sess[p].team_id]
       /\ db_ledger' = IF PaymentEntries(db_ledger, o) # {}
                         THEN [i \in 1..Len(db_ledger) |->
                                 IF i \in PaymentEntries(db_ledger, o)
                                   THEN entry ELSE db_ledger[i]]
                       ELSE IF sess[p].add_record
                         THEN Append(db_ledger, entry)
                         ELSE db_ledger
    /\ Finish(p, req[p], TRUE, "", "sent", sess[p].seen)
    /\ UNCHANGED <<db_redemption, verify, judge, now, config, lifespan, db_team, invited, granted, calls, ticks>>

\* Line 359 (622): commit of the order row and of the new entry.
redeem_commit(p) ==
    /\ pc[p] = "r_commit"
    /\ LET o == req[p].order_no IN
       /\ db_order' = [db_order EXCEPT ![o].status = sess[p].o_status,
                                       ![o].redeemed_at = sess[p].redeemed_at,
                                       ![o].team_id = sess[p].team_id]
       /\ db_ledger' = IF sess[p].add_record
                         THEN Append(db_ledger,
                                     InviteRecord(o, sess[p].team_id, sess[p].redeemed_at))
                         ELSE db_ledger
    /\ Finish(p, req[p], TRUE, "", "sent", sess[p].seen)
    /\ UNCHANGED <<db_redemption, verify, judge, now, config, lifespan, db_team, invited, granted, calls, ticks>>

\* ----------------------------------------------------------- manual_redeem
\* Lines 580-594.
manual_redeem_begin(p, o) ==
    /\ Begin(p)
    /\ LET r == [kind |-> "manual", order_no |-> o, params |-> NoEvent, method |-> ""]
           order == db_order[o]
       IN IF order.status = "none"
            THEN Finish(p, r, FALSE, "order_not_found", "none", order.status)
          ELSE IF order.status # "paid"
            THEN Finish(p, r, FALSE, "status_incorrect", "none", order.status)
          ELSE /\ req' = [req EXCEPT ![p] = r]
               /\ pc' = [pc EXCEPT ![p] = "i_select"]
               /\ sess' = [sess EXCEPT ![p] = [NoSession EXCEPT !.seen = order.status,
                                                                !.o_status = order.status]]
               /\ UNCHANGED last
    /\ UNCHANGED <<db_redemption, verify, judge, now, config, lifespan, db, invited, granted, ticks>>

\* -------------------------------------------------------- get_order_status
\* Lines 492-504 and, when nothing is to be written, 507-517.
get_order_status_begin(p, o) ==
    /\ Begin(p)
    /\ LET r == [kind |-> "status", order_no |-> o, params |-> NoEvent, method |-> ""]
           order == db_order[o]
       IN IF order.status = "none"
            THEN Finish(p, r, FALSE, "order_not_found", "none", order.status)
          ELSE IF /\ order.status = "pending"
                  /\ order.expires_at # NoTime
                  /\ now > order.expires_at
            THEN /\ req' = [req EXCEPT ![p] = r]
                 /\ pc' = [pc EXCEPT ![p] = "g_commit"]
                 /\ sess' = [sess EXCEPT ![p] = [NoSession EXCEPT !.seen = order.status,
                                                                  !.o_status = "expired"]]
                 /\ UNCHANGED last
          ELSE Finish(p, r, TRUE, "", "none", order.status)
    /\ UNCHANGED <<db_redemption, verify, judge, now, config, lifespan, db, invited, granted, ticks>>

\* Lines 505-517.
get_order_status_commit(p) ==
    /\ pc[p] = "g_commit"
    /\ db_order' = [db_order EXCEPT ![req[p].order_no].status = sess[p].o_status]
    /\ Finish(p, req[p], TRUE, "", "none", sess[p].seen)
    /\ UNCHANGED <<db_redemption, verify, judge, now, config, lifespan, db_team, db_ledger, invited, granted, calls, ticks>>

\* ------------------------------------------------------------------- clock
\* Time passes; the instants that matter are an order's expires_at and the
\* minute after it.
Instants ==
    UNION {{db_order[o].expires_at, db_order[o].expires_at + 1} :
             o \in {x \in Orders : db_order[x].status # "none"}}

Tick ==
    /\ ticks < MaxTicks
    /\ \E t \in Instants : t > now /\ now' = t
    /\ ticks' = ticks + 1
    /\ UNCHANGED <<db_redemption, verify, judge, config, lifespan, db, pc, req, sess, last, invited, granted, calls>>

\* --------------------------------------------------------------- behaviour
Next ==
    \/ \E o \in Orders : create_order(o)
    \/ \E p \in Procs : \E arrival \in Arrivals : payment_notify(p, arrival)
    \/ \E p \in Procs : handle_notify_order(p)
    \/ \E p \in Procs : handle_notify_commit(p)
    \/ \E p \in Procs : _invite_select(p)
    \/ \E p \in Procs : _invite_team(p)
    \/ \E p \in Procs : _invite_send(p)
    \/ \E p \in Procs : _invite_commit(p)
    \/ \E p \in Procs : create_invite_record(p)
    \/ \E p \in Procs : redeem_commit(p)
    \/ \E p \in Procs, o \in Orders : manual_redeem_begin(p, o)
    \/ \E p \in Procs, o \in Orders : get_order_status_begin(p, o)
    \/ \E p \in Procs : get_order_status_commit(p)
    \/ Tick

Spec == Init /\ [][Next]_vars

\* ------------------------------------------------- the merchant configuration
\* The settings may lack the merchant id, the key or the site domain (a
\* domain of "/" alone is none); an order created while the settings were
\* complete may still be stored.
ConfigInit ==
    /\ lifespan = Serving
    /\ now = 0
    /\ mapay_id \in {MerchantId, ""}
    /\ mapay_key \in {MerchantKey, ""}
    /\ mapay_domain \in {SiteDomain, "", "/"}
    /\ db_team = [t \in Teams |->
                    [status |-> "active", current_members |-> 0,
                     max_members |-> max_members(t)]]
    /\ \E stored \in BOOLEAN :
          db_order = [o \in Orders |->
                        IF stored /\ o = "ORD1"
                          THEN [NoOrder EXCEPT !.status = "pending",
                                               !.expires_at = ORDER_EXPIRE_MINUTES]
                          ELSE NoOrder]
    /\ db_ledger = <<>>
    /\ pc = [p \in Procs |-> "idle"]
    /\ req = [p \in Procs |-> NoRequest]
    /\ sess = [p \in Procs |-> NoSession]
    /\ last = NoResult
    /\ invited = [t \in Teams |-> 0]
    /\ granted = [o \in Orders |-> [notify |-> 0, manual |-> 0]]
    /\ calls = 0
    /\ ticks = 0
    /\ judge = NoJudgement
    /\ verify = NoVerification
    /\ db_redemption = <<>>

ConfigNext ==
    \/ \E o \in Orders : create_order_request(o)
    \/ \E p \in Procs : \E arrival \in Arrivals : payment_notify(p, arrival)
    \/ \E p \in Procs : handle_notify_order(p)
    \/ \E p \in Procs : handle_notify_commit(p)
    \/ \E p \in Procs : _invite_select(p)
    \/ \E p \in Procs : _invite_team(p)
    \/ \E p \in Procs : _invite_send(p)
    \/ \E p \in Procs : _invite_commit(p)
    \/ \E p \in Procs : create_invite_record(p)
    \/ \E p \in Procs : redeem_commit(p)

SpecConfig == ConfigInit /\ [][ConfigNext]_vars

\* ------------------------------------------- _judge_after_sales on its inputs
\* The statuses a team row may hold, and "" for a grant whose team is gone.
TeamStatuses == {"active", "full", "expired", "error", "banned", ""}

\* Grant times, and the distances from the grant at which it is judged.
GrantTimes == {NoTime} \cup (0..MaxGrantTime)

JudgeOffsets ==
    {0, 1, timedelta_days(29), timedelta_days(30) - 1, timedelta_days(30),
     timedelta_days(30) + 1, timedelta_days(31), timedelta_days(60)}

JudgeInit ==
    /\ InitProgram
    /\ verify = NoVerification
    /\ db_redemption = <<>>
    /\ judge \in {[NoJudgement EXCEPT !.invited_at = t, !.team_status = st,
                                      !.at = (IF t = NoTime THEN 0 ELSE t) + d] :
                    t \in GrantTimes, st \in TeamStatuses, d \in JudgeOffsets}

JudgeCall ==
    /\ ~judge.called
    /\ judge' = [judge EXCEPT
                   !.called = TRUE,
                   !.result = _judge_after_sales(judge.invited_at,
                                                 judge.team_status, judge.at)]
    /\ UNCHANGED <<db_redemption, verify, now, config, lifespan, db, pc, req, sess,
                   last, invited, granted, calls, ticks>>

JudgeNext == JudgeCall

SpecJudge == JudgeInit /\ [][JudgeNext]_vars

\* --------------------------------------------------- _verify_sign on its inputs
SignFields ==
    {"money", "name", "out_trade_no", "pid", "trade_no", "trade_status", "type"}

FieldValues(k) ==
    CASE k = "money"        -> {"19.90", "29.90"}
      [] k = "name"         -> {"vip", ""}
      [] k = "out_trade_no" -> {"ORD1", "ORD2"}
      [] k = "pid"          -> {"1001", "1002"}
      [] k = "trade_no"     -> {"T1", "T2"}
      [] k = "trade_status" -> {"TRADE_SUCCESS", "WAIT_BUYER_PAY"}
      [] k = "type"         -> {"alipay", "alipayK"}

SignKeys == {"KEY", "EY"}

\* The event the provider signed, and the key it signed it with.
RefParams ==
    [money |-> "19.90", name |-> "vip", out_trade_no |-> "ORD1", pid |-> "1001",
     trade_no |-> "T1", trade_status |-> "TRADE_SUCCESS", type |-> "alipay"]

RefSign == Md5(SignStr(RefParams, MerchantKey))

\* A callback: seven fields, the name possibly not sent, a sign or none, and
\* possibly a sign_type.
Callback(f, drop, sgn, extra) ==
    LET sent == (SignFields \ (IF drop THEN {"name"} ELSE {}))
                  \cup (IF sgn = "none" THEN {} ELSE {"sign"})
                  \cup (IF extra THEN {"sign_type"} ELSE {})
        body == [k \in SignFields \ (IF drop THEN {"name"} ELSE {}) |-> f[k]]
    IN  [k \in sent |->
           IF k = "sign"
             THEN (IF sgn = "ref" THEN RefSign
                   ELSE IF sgn = "own" THEN Md5(SignStr(body, MerchantKey))
                   ELSE <<>>)
           ELSE IF k = "sign_type" THEN "MD5"
           ELSE f[k]]

Callbacks ==
    {Callback(f, drop, sgn, extra) :
        f \in [money : FieldValues("money"), name : FieldValues("name"),
                out_trade_no : FieldValues("out_trade_no"),
                pid : FieldValues("pid"), trade_no : FieldValues("trade_no"),
                trade_status : FieldValues("trade_status"),
                type : FieldValues("type")],
        drop \in BOOLEAN, sgn \in {"ref", "own", "empty", "none"},
        extra \in BOOLEAN}

SignInit ==
    /\ InitProgram
    /\ judge = NoJudgement
    /\ db_redemption = <<>>
    /\ verify \in {[NoVerification EXCEPT !.params = c, !.key = k] :
                     c \in Callbacks, k \in SignKeys}

SignCall ==
    /\ ~verify.called
    /\ verify' = [verify EXCEPT
                    !.called = TRUE,
                    !.result = _verify_sign(verify.params, verify.key)]
    /\ UNCHANGED <<db_redemption, judge, now, config, lifespan, db, pc, req, sess,
                   last, invited, granted, calls, ticks>>

SignNext == SignCall

SpecSign == SignInit /\ [][SignNext]_vars

\* ------------------------------------------------- _generate_sign by itself
\* Line 81: the keys that may take part, in the order they are visited.
sign_keys ==
    <<"money", "name", "notify_url", "out_trade_no", "pid", "return_url",
      "sitename", "type">>

\* Lines 83-87: the pieces "k=v" of the keys from position i on whose value
\* is not empty.
RECURSIVE sign_parts(_, _)
sign_parts(params, i) ==
    IF i > Len(sign_keys) THEN <<>>
    ELSE LET k == sign_keys[i]
             v == Get(params, k)
         IN  IF v # "" THEN <<(<<k, "=">> \o Tok(v))>> \o sign_parts(params, i + 1)
             ELSE sign_parts(params, i + 1)

\* '&'.join(parts).
RECURSIVE join(_)
join(parts) ==
    IF parts = <<>> THEN <<>>
    ELSE IF Len(parts) = 1 THEN parts[1]
    ELSE parts[1] \o <<"&">> \o join(Tail(parts))

\* A signature that keeps the keys whose value is empty, sitename excepted.
_generate_sign_keep_empty(params, key) ==
    Md5(join([i \in 1..6 |-> <<sign_keys[i], "=">> \o Tok(Get(params, sign_keys[i]))]
             \o (IF Get(params, "sitename") = "" THEN <<>>
                 ELSE <<(<<"sitename", "=">> \o Tok(Get(params, "sitename")))>>)
             \o <<(<<"type", "=">> \o Tok(Get(params, "type")))>>)
        \o Tok(key))

\* Lines 67-90.
_generate_sign(params, key) == Md5(join(sign_parts(params, 1)) \o Tok(key))

\* The request parameters create_order signs (lines 171-184): pid, type,
\* out_trade_no, notify_url, return_url, name, money and sign_type; a
\* sitename and a sign left by an earlier signing may be there as well.
OrderRequest(f, sitename, sgn) ==
    LET sent == DOMAIN f \cup {"sign_type"}
                  \cup (IF sitename = "none" THEN {} ELSE {"sitename"})
                  \cup (IF sgn THEN {"sign"} ELSE {})
    IN  [k \in sent |->
           IF k = "sign_type" THEN "MD5"
           ELSE IF k = "sitename" THEN sitename
           ELSE IF k = "sign" THEN "0f0f"
           ELSE f[k]]

OrderRequests ==
    {OrderRequest(f, sitename, sgn) :
        f \in [money : {"19.90"}, name : {"vip", ""}, notify_url : {"notify"},
               out_trade_no : Orders, pid : {MerchantId}, return_url : {"return"},
               type : {"alipay", ""}],
        sitename \in {"none", "", "site"}, sgn \in BOOLEAN}

GenerateInit ==
    /\ InitProgram
    /\ judge = NoJudgement
    /\ db_redemption = <<>>
    /\ verify \in {[params |-> r, key |-> k, called |-> FALSE, result |-> <<>>] :
                     r \in OrderRequests, k \in SignKeys}

GenerateCall ==
    /\ ~verify.called
    /\ verify' = [verify EXCEPT
                    !.called = TRUE,
                    !.result = _generate_sign(verify.params, verify.key)]
    /\ UNCHANGED <<db_redemption, judge, now, config, lifespan, db, pc, req, sess,
                   last, invited, granted, calls, ticks>>

GenerateNext == GenerateCall

SpecGenerate == GenerateInit /\ [][GenerateNext]_vars

\* ------------------------------------------------ the invite records queries
\* The texts of the model as sequences of characters.
Chars(str) ==
    CASE str = ""        -> <<>>
      [] str = "a@x.com" -> <<"a", "@", "x", ".", "c", "o", "m">>
      [] str = "B@x.com" -> <<"B", "@", "x", ".", "c", "o", "m">>
      [] str = "A"       -> <<"A">>
      [] str = "ORD1"    -> <<"O", "R", "D", "1">>
      [] str = "ORD2"    -> <<"O", "R", "D", "2">>
      [] str = "ord1"    -> <<"o", "r", "d", "1">>
      [] OTHER           -> <<str>>

lower(c) ==
    CASE c = "A" -> "a" [] c = "B" -> "b" [] c = "O" -> "o"
      [] c = "R" -> "r" [] c = "D" -> "d" [] OTHER -> c

\* column.ilike(f"%{pattern}%") of lines 59-65: the pattern occurs in the
\* value, letters compared without case.
ilike(value, pattern) ==
    LET v == [i \in 1..Len(Chars(value)) |-> lower(Chars(value)[i])]
        q == [i \in 1..Len(Chars(pattern)) |-> lower(Chars(pattern)[i])]
    IN  \E i \in 1..(Len(v) - Len(q) + 1) : SubSeq(v, i, i + Len(q) - 1) = q

\* datetime.strptime(date_str, "%Y-%m-%d") as a day number (day 0 is Monday
\* 2024-01-01), NoDay when the text is not a date.
NoDay == NoTime

strptime(date_str) ==
    CASE date_str = "2024-01-09" -> 8
      [] date_str = "2024-02-02" -> 32
      [] OTHER -> NoDay

\* Lines 28-35; NoTime stands for None.
_parse_date_start(date_str) ==
    IF date_str = "" \/ strptime(date_str) = NoDay THEN NoTime
    ELSE timedelta_days(strptime(date_str))

\* Lines 37-44.
_parse_date_end(date_str) ==
    IF date_str = "" \/ strptime(date_str) = NoDay THEN NoTime
    ELSE timedelta_days(strptime(date_str)) + timedelta_days(1)

\* Filters that take every non-empty source_type as a condition.
_build_filters_strict(f, e) ==
    /\ f.email # "" => ilike(e.email, f.email)
    /\ f.source_code # "" => ilike(e.source_code, f.source_code)
    /\ f.order_no # "" => ilike(e.order_no, f.order_no)
    /\ f.team_id # 0 => e.team_id = f.team_id
    /\ f.source_type # "" => e.source_type = f.source_type
    /\ _parse_date_start(f.start_date) # NoTime =>
          e.invited_at # NoTime /\ e.invited_at >= _parse_date_start(f.start_date)
    /\ _parse_date_end(f.end_date) # NoTime =>
          e.invited_at # NoTime /\ e.invited_at < _parse_date_end(f.end_date)

\* Lines 46-81: whether row e passes the conditions built from f (a NULL
\* invited_at passes no comparison).
_build_filters(f, e) ==
    /\ f.email # "" => ilike(e.email, f.email)
    /\ f.source_code # "" => ilike(e.source_code, f.source_code)
    /\ f.order_no # "" => ilike(e.order_no, f.order_no)
    /\ f.team_id # 0 => e.team_id = f.team_id
    /\ f.source_type \in SUPPORTED_INVITE_SOURCE_TYPES =>
          e.source_type = f.source_type
    /\ _parse_date_start(f.start_date) # NoTime =>
          e.invited_at # NoTime /\ e.invited_at >= _parse_date_start(f.start_date)
    /\ _parse_date_end(f.end_date) # NoTime =>
          e.invited_at # NoTime /\ e.invited_at < _parse_date_end(f.end_date)

\* The ids (positions in the table) of the rows that pass.
Filtered(ledger, f) == {i \in 1..Len(ledger) : _build_filters(f, ledger[i])}

\* A set of ids as a sequence, in some order.
RECURSIVE SeqOf(_)
SeqOf(ids) ==
    IF ids = {} THEN <<>>
    ELSE LET i == CHOOSE x \in ids : TRUE IN <<i>> \o SeqOf(ids \ {i})

\* Lines 183-236: the count, then the page of the rows ordered by
\* invited_at descending (NULL last); ties has the order in which the
\* database returns rows of equal invited_at.
get_invite_records(ledger, f, page, per_page, ties) ==
    LET ids == Filtered(ledger, f)
        total == Cardinality(ids)
        actual == IF page < 1 THEN 1 ELSE page
        offset == (actual - 1) * per_page
        ordered == SortSeq(SeqOf(ids),
                           LAMBDA a, b :
                              \/ ledger[a].invited_at > ledger[b].invited_at
                              \/ /\ ledger[a].invited_at = ledger[b].invited_at
                                 /\ IF ties THEN a < b ELSE a > b)
    IN  [success |-> TRUE,
         records |-> SubSeq(ordered, offset + 1,
                            IF offset + per_page < total THEN offset + per_page
                            ELSE total),
         total |-> total,
         current_page |-> actual,
         total_pages |-> IF total > 0 THEN (total + per_page - 1) \div per_page ELSE 1]

\* now.replace(hour=0, ...), weekday() and replace(day=1) on the days of
\* January and February 2024.
today_start(at) == (at \div MinutesPerDay) * MinutesPerDay
weekday(day) == day % 7
month_start_day(day) == IF day < 31 THEN 0 ELSE 31

\* Statistics over the whole table, whatever the filters.
get_invite_stats_unfiltered(ledger, f, at) ==
    LET dated == {i \in 1..Len(ledger) : ledger[i].invited_at # NoTime}
    IN  [total |-> Len(ledger),
         today |-> Cardinality({i \in dated : ledger[i].invited_at >= today_start(at)}),
         this_week |-> Cardinality(dated),
         this_month |-> Cardinality(dated)]

\* Lines 272-299.
get_invite_stats(ledger, f, at) ==
    LET time_rows == Filtered(ledger, f)
        dated == {i \in time_rows : ledger[i].invited_at # NoTime}
        today == today_start(at)
        week_start == today - timedelta_days(weekday(today \div MinutesPerDay))
        month_start == timedelta_days(month_start_day(today \div MinutesPerDay))
    IN  [total |-> Cardinality(time_rows),
         today |-> Cardinality({i \in dated : ledger[i].invited_at >= today}),
         this_week |-> Cardinality({i \in dated : ledger[i].invited_at >= week_start}),
         this_month |-> Cardinality({i \in dated : ledger[i].invited_at >= month_start})]

\* The filter arguments and pages the admin page may be asked for.
QueryFilters ==
    [email : {"", "A"}, source_code : {""}, order_no : {"", "ord1"},
     team_id : {0, 1}, source_type : {"", "payment", "bogus"},
     start_date : {"", "2024-01-09", "2024-02-30"}, end_date : {"", "2024-01-09"}]

\* Ledgers in insertion order: a legacy row without a time, rows at 00:00 of
\* 9 January, two at 23:59 of that day, one at 00:00 of 10 January, one of
\* 30 January.
QueryLedgers ==
    {<<>>,
     <<Entry("a@x.com", "redeem_code", "CODE1", "", 1, NoTime),
       Entry("a@x.com", "payment", "", "ORD1", 1, timedelta_days(9)),
       Entry("B@x.com", "payment", "", "ORD2", 2, timedelta_days(8)),
       Entry("a@x.com", "after_sales", "CODE1", "", 2, timedelta_days(9) - 1),
       Entry("B@x.com", "redeem_code", "CODE2", "", 1, timedelta_days(9) - 1),
       Entry("a@x.com", "redeem_code", "CODE1", "", 1, timedelta_days(29))>>}

\* 9 January 10:00 and 2 February 10:00.
QueryInstants == {timedelta_days(8) + 600, timedelta_days(32) + 600}

QueryInit ==
    /\ lifespan = Serving
    /\ now \in QueryInstants
    /\ mapay_key = MerchantKey
    /\ mapay_id = MerchantId
    /\ mapay_domain = SiteDomain
    /\ db_team = [t \in Teams |->
                    [status |-> "active", current_members |-> 0,
                     max_members |-> max_members(t)]]
    /\ db_order = [o \in Orders |-> NoOrder]
    /\ db_ledger \in QueryLedgers
    /\ pc = [p \in Procs |-> "idle"]
    /\ req = [p \in Procs |-> NoRequest]
    /\ sess = [p \in Procs |-> NoSession]
    /\ last = NoResult
    /\ invited = [t \in Teams |-> 0]
    /\ granted = [o \in Orders |-> [notify |-> 0, manual |-> 0]]
    /\ calls = 0
    /\ ticks = 0
    /\ judge = NoJudgement
    /\ verify = NoVerification
    /\ db_redemption = <<>>

QueryFrame ==
    <<now, config, lifespan, db_team, db_order, invited, granted, ticks, judge, verify,
      db_redemption>>

\* admin.py lines 936-947: the page asks for the records.
invite_records_page(p, f, page) ==
    /\ Free(p)
    /\ \A q \in Procs : q < p => ~Free(q)
    /\ calls < MaxPageCalls
    /\ calls' = calls + 1
    /\ \E ties \in BOOLEAN :
          sess' = [sess EXCEPT ![p] =
                     [result |-> get_invite_records(db_ledger, f, page, PerPage, ties),
                      rows |-> Len(db_ledger)]]
    /\ req' = [req EXCEPT ![p] = [kind |-> "page", filters |-> f, page |-> page]]
    /\ pc' = [pc EXCEPT ![p] = "q_stats"]
    /\ UNCHANGED <<db_ledger, last>>
    /\ UNCHANGED QueryFrame

\* admin.py lines 955-972: then for the statistics, and answers.
invite_records_stats(p) ==
    /\ pc[p] = "q_stats"
    /\ last' = [kind |-> "page", records |-> sess[p].result,
                stats |-> get_invite_stats(db_ledger, req[p].filters, now)]
    /\ pc' = [pc EXCEPT ![p] = "idle"]
    /\ req' = [req EXCEPT ![p] = NoRequest]
    /\ sess' = [sess EXCEPT ![p] = NoSession]
    /\ UNCHANGED <<db_ledger, calls>>
    /\ UNCHANGED QueryFrame

\* Another request commits a new entry (invite_record.py 128-141).
append_entry ==
    /\ Len(db_ledger) < MaxQueryRows
    /\ db_ledger' = Append(db_ledger, Entry("a@x.com", "after_sales", "CODE1", "", 2, now))
    /\ UNCHANGED <<pc, req, sess, last, calls>>
    /\ UNCHANGED QueryFrame

QueryNext ==
    \/ \E p \in Procs, f \in QueryFilters, page \in 0..MaxPage :
          invite_records_page(p, f, page)
    \/ \E p \in Procs : invite_records_stats(p)
    \/ append_entry

SpecQuery == QueryInit /\ [][QueryNext]_vars

\* ------------------------------------------------ the lifespan: the shutdown
\* asyncio.wait_for(task, timeout=30) of lines 201 and 210.
GraceSeconds == 30

ShutdownInit ==
    /\ InitProgram
    /\ judge = NoJudgement
    /\ verify = NoVerification
    /\ db_redemption = <<>>

ShutdownFrame ==
    <<now, config, db, pc, req, sess, last, invited, granted, calls, ticks,
      judge, verify, db_redemption>>

\* The step of the lifespan after task number i is done with: the next task,
\* or close_db.
AfterTask(l, i) ==
    IF i < Len(Tasks) THEN [l EXCEPT !.pc = "stop", !.current = i + 1]
    ELSE [l EXCEPT !.pc = "close"]

\* Lines 157-194 with the setting of task i disabled: the task is None.  The
\* setting is read once, before any task has run.
task_disabled(i) ==
    /\ lifespan.pc = "serving"
    /\ lifespan.task[i] = "waiting"
    /\ \A j \in 1..Len(Tasks) : lifespan.task[j] \in {"waiting", "none"}
    /\ lifespan.outcome = Serving.outcome
    /\ lifespan' = [lifespan EXCEPT !.task[i] = "none"]
    /\ UNCHANGED ShutdownFrame

\* A loop that starts its job whenever its wait ends.
loop_wakes_ignoring_stop(i) ==
    /\ lifespan.task[i] = "waiting"
    /\ lifespan' = [lifespan EXCEPT !.task[i] = "working"]
    /\ UNCHANGED ShutdownFrame

\* The loops of lines 41-70 and 82-124.  The wait of line 46 (94) ends: by
\* its timeout the job starts, by the stop event the loop is left.
loop_wakes(i) ==
    /\ lifespan.task[i] = "waiting"
    /\ lifespan' = [lifespan EXCEPT !.task[i] =
                       IF lifespan.stop_event[i] THEN "finished" ELSE "working"]
    /\ UNCHANGED ShutdownFrame

\* How a run of sync_all_teams or cleanup_expired_members_by_invite_records
\* ends: a result with success, a result without, an exception.
JobOutcomes == {"success", "failure", "exception"}

\* A loop that an exception of its job ends.
loop_job_ends_fatal(i) ==
    /\ lifespan.task[i] = "working"
    /\ \E outcome \in JobOutcomes :
          lifespan' = [lifespan EXCEPT
                         !.outcome[i] = outcome,
                         !.task[i] = IF lifespan.stop_event[i] \/ outcome = "exception"
                                       THEN "finished" ELSE "waiting"]
    /\ UNCHANGED ShutdownFrame

\* The job of lines 54-70 (102-124) ends: its result is logged (58-66,
\* 110-120), its exception is caught and logged (69-70, 123-124); line 41
\* (82) looks at the event.
loop_job_ends(i) ==
    /\ lifespan.task[i] = "working"
    /\ \E outcome \in JobOutcomes :
          lifespan' = [lifespan EXCEPT
                         !.outcome[i] = outcome,
                         !.task[i] = IF lifespan.stop_event[i]
                                       THEN "finished" ELSE "waiting"]
    /\ UNCHANGED ShutdownFrame

\* CancelledError is raised at the await the task is suspended in (lines 46,
\* 56, 67-68).
loop_cancelled(i) ==
    /\ lifespan.task[i] = "cancelling"
    /\ lifespan' = [lifespan EXCEPT !.task[i] = "cancelled"]
    /\ UNCHANGED ShutdownFrame

\* Line 196: the server stops and the lifespan resumes after its yield.
lifespan_resumes ==
    /\ lifespan.pc = "serving"
    /\ lifespan' = [lifespan EXCEPT !.pc = "stop", !.current = 1]
    /\ UNCHANGED ShutdownFrame

\* Lines 198-201 (207-210): a task that exists gets its stop event set and
\* is waited for.
lifespan_stop ==
    /\ lifespan.pc = "stop"
    /\ LET i == lifespan.current IN
       lifespan' = IF lifespan.task[i] = "none" THEN AfterTask(lifespan, i)
                   ELSE [lifespan EXCEPT !.stop_event[i] = TRUE, !.pc = "wait",
                                         !.elapsed = 0]
    /\ UNCHANGED ShutdownFrame

\* Time passes while wait_for waits.
wait_for_second ==
    /\ lifespan.pc = "wait"
    /\ lifespan.elapsed < GraceSeconds
    /\ lifespan' = [lifespan EXCEPT !.elapsed =
                       IF @ + GraceStep > GraceSeconds THEN GraceSeconds
                       ELSE @ + GraceStep]
    /\ UNCHANGED ShutdownFrame

\* wait_for returns: the task has finished.
wait_for_returns ==
    /\ lifespan.pc = "wait"
    /\ lifespan.task[lifespan.current] = "finished"
    /\ lifespan' = AfterTask(lifespan, lifespan.current)
    /\ UNCHANGED ShutdownFrame

\* A wait_for that gives up at once.
wait_for_timeout_at_once ==
    /\ lifespan.pc = "wait"
    /\ lifespan.task[lifespan.current] # "finished"
    /\ lifespan' = [lifespan EXCEPT !.task[lifespan.current] = "cancelling",
                                    !.pc = "reap"]
    /\ UNCHANGED ShutdownFrame

\* Lines 202-205 (211-214): the timeout; the task is cancelled and awaited.
wait_for_timeout ==
    /\ lifespan.pc = "wait"
    /\ lifespan.elapsed >= GraceSeconds
    /\ lifespan.task[lifespan.current] # "finished"
    /\ lifespan' = [lifespan EXCEPT !.task[lifespan.current] = "cancelling",
                                    !.pc = "reap"]
    /\ UNCHANGED ShutdownFrame

\* Line 205 (214): the await of the cancelled task returns.
lifespan_reaps ==
    /\ lifespan.pc = "reap"
    /\ lifespan.task[lifespan.current] = "cancelled"
    /\ lifespan' = AfterTask(lifespan, lifespan.current)
    /\ UNCHANGED ShutdownFrame

\* Line 217.
close_db ==
    /\ lifespan.pc = "close"
    /\ lifespan' = [lifespan EXCEPT !.pc = "closed", !.db_closed = TRUE]
    /\ UNCHANGED ShutdownFrame

ShutdownNext ==
    \/ \E i \in 1..Len(Tasks) : task_disabled(i)
    \/ \E i \in 1..Len(Tasks) : loop_wakes(i)
    \/ \E i \in 1..Len(Tasks) : loop_job_ends(i)
    \/ \E i \in 1..Len(Tasks) : loop_cancelled(i)
    \/ lifespan_resumes
    \/ lifespan_stop
    \/ wait_for_second
    \/ wait_for_returns
    \/ wait_for_timeout
    \/ lifespan_reaps
    \/ close_db

SpecShutdown == ShutdownInit /\ [][ShutdownNext]_vars

\* The same with the event loop's scheduling: a wait on the stop event ends
\* (by the event or by its timeout), a job run ends, and a cancelled task
\* gets its CancelledError.
SpecLoops ==
    /\ ShutdownInit
    /\ [][ShutdownNext]_vars
    /\ \A i \in 1..Len(Tasks) :
          /\ WF_vars(loop_wakes(i))
          /\ WF_vars(loop_job_ends(i))
          /\ WF_vars(loop_cancelled(i))

\* -------------------------------------------- create_invite_record by itself
\* Callers of create_invite_record, each with a session of its own: the rows
\* a session sees are the committed ones and those it has added (its lookup
\* flushes them first); commit makes them visible to everybody.
NoPending == [pending |-> <<>>]

RecordInit ==
    /\ InitProgram
    /\ judge = NoJudgement
    /\ verify = NoVerification
    /\ db_redemption = <<>>

RecordStart(p) ==
    IF sess[p] = NoSession THEN NoPending ELSE sess[p]

Visible(p) == db_ledger \o RecordStart(p).pending

record_call(p, source_type, order_no) ==
    /\ calls < MaxRecordCalls
    /\ LET mine == RecordStart(p)
           record == Entry("a@x.com", source_type, "", order_no, 1, now)
           r == create_invite_record_in(db_ledger \o mine.pending, record)
       IN  /\ sess' = [sess EXCEPT ![p] =
                         IF r.created
                           THEN [pending |-> Append(mine.pending, record)]
                           ELSE mine]
           /\ last' = [kind |-> "record", source_type |-> source_type,
                       order_no |-> order_no, success |-> r.success,
                       created |-> r.created, existing |-> r.existing]
    /\ calls' = calls + 1
    /\ UNCHANGED <<db_redemption, verify, judge, now, config, lifespan, db, pc, req,
                   invited, granted, ticks>>

\* await db_session.commit() of the caller.
record_commit(p) ==
    /\ sess[p] # NoSession
    /\ sess[p].pending # <<>>
    /\ db_ledger' = db_ledger \o sess[p].pending
    /\ sess' = [sess EXCEPT ![p] = NoPending]
    /\ UNCHANGED <<db_redemption, verify, judge, now, config, lifespan, db_team,
                   db_order, pc, req, last, invited, granted, calls, ticks>>

\* await db_session.rollback() of the caller.
record_rollback(p) ==
    /\ sess[p] # NoSession
    /\ sess[p].pending # <<>>
    /\ sess' = [sess EXCEPT ![p] = NoPending]
    /\ UNCHANGED <<db_redemption, verify, judge, now, config, lifespan, db, pc, req,
                   last, invited, granted, calls, ticks>>

RecordSourceTypes == {"payment", "redeem_code", "coupon"}

RecordNext ==
    \/ \E p \in Procs : \E st \in RecordSourceTypes : \E o \in {"ORD1", ""} :
         record_call(p, st, o)
    \/ \E p \in Procs : record_commit(p)
    \/ \E p \in Procs : record_rollback(p)

SpecRecord == RecordInit /\ [][RecordNext]_vars

\* ------------------------------------------------------------ warranty.py
\* email.strip().lower() and code.strip() on the texts of the model.
Normalize(email) == IF email = " A@X.com " THEN "a@x.com" ELSE email

Strip(code) == IF code = " CODE1 " THEN "CODE1" ELSE code

\* A row of redemption_records.
Redemption(email, code, team_id, redeemed_at) ==
    [email |-> email, code |-> code, team_id |-> team_id,
     redeemed_at |-> redeemed_at]

\* ORDER BY invited_at DESC, id DESC LIMIT 1 over the rows S of a table
\* (a NULL time sorts after every time).
Latest(times, S) ==
    CHOOSE i \in S :
        \A j \in S : times[j] < times[i] \/ (times[j] = times[i] /\ j <= i)

NoSnapshot ==
    [found |-> FALSE, email |-> "", source_type |-> "", code |-> "",
     order_no |-> "", invited_at |-> NoTime, team_id |-> NoTeam,
     team_status |-> ""]

\* The outer join with teams: the status of the row's team, if it has one.
TeamStatusOf(teams, team_id) ==
    IF team_id \in DOMAIN teams THEN teams[team_id].status ELSE ""

\* The anchor taken over all three source types (after_sales included).
_get_original_invite_snapshot_latest(ledger, redemption, teams, email, code) ==
    LET normalized_email == Normalize(email)
        S == {i \in 1..Len(ledger) :
                /\ Normalize(ledger[i].email) = normalized_email
                /\ ledger[i].source_type \in {"redeem_code", "payment", "after_sales"}}
    IN  IF normalized_email = "" \/ S = {} THEN NoSnapshot
        ELSE LET r == ledger[Latest([i \in 1..Len(ledger) |-> ledger[i].invited_at], S)]
             IN  [found |-> TRUE, email |-> r.email, source_type |-> r.source_type,
                  code |-> r.source_code, order_no |-> r.order_no,
                  invited_at |-> r.invited_at, team_id |-> r.team_id,
                  team_status |-> TeamStatusOf(teams, r.team_id)]

\* warranty.py lines 30-107.
_get_original_invite_snapshot(ledger, redemption, teams, email, code) ==
    LET normalized_email == Normalize(email)
        normalized_code == Strip(code)
        S == IF normalized_email # ""
               THEN {i \in 1..Len(ledger) :
                       /\ Normalize(ledger[i].email) = normalized_email
                       /\ ledger[i].source_type \in {"redeem_code", "payment"}}
               ELSE {i \in 1..Len(ledger) :
                       /\ ledger[i].source_type = "redeem_code"
                       /\ ledger[i].source_code = normalized_code}
        R == IF normalized_email # ""
               THEN {i \in 1..Len(redemption) :
                       Normalize(redemption[i].email) = normalized_email}
               ELSE {i \in 1..Len(redemption) :
                       redemption[i].code = normalized_code}
    IN  IF normalized_email = "" /\ normalized_code = "" THEN NoSnapshot
        ELSE IF S # {}
          THEN LET r == ledger[Latest([i \in 1..Len(ledger) |-> ledger[i].invited_at], S)]
               IN  [found |-> TRUE, email |-> r.email, source_type |-> r.source_type,
                    code |-> r.source_code, order_no |-> r.order_no,
                    invited_at |-> r.invited_at, team_id |-> r.team_id,
                    team_status |-> TeamStatusOf(teams, r.team_id)]
        ELSE IF R # {}
          THEN LET r == redemption[Latest([i \in 1..Len(redemption) |->
                                              redemption[i].redeemed_at], R)]
               IN  [found |-> TRUE, email |-> r.email, source_type |-> "redeem_code",
                    code |-> r.code, order_no |-> "",
                    invited_at |-> r.redeemed_at, team_id |-> r.team_id,
                    team_status |-> TeamStatusOf(teams, r.team_id)]
        ELSE NoSnapshot

\* warranty.py lines 117-146.
_get_current_invite_snapshot(ledger, teams, email) ==
    LET normalized_email == Normalize(email)
        S == {i \in 1..Len(ledger) :
                /\ Normalize(ledger[i].email) = normalized_email
                /\ ledger[i].source_type \in {"redeem_code", "payment", "after_sales"}}
    IN  IF normalized_email = "" \/ S = {} THEN NoSnapshot
        ELSE LET r == ledger[Latest([i \in 1..Len(ledger) |-> ledger[i].invited_at], S)]
             IN  [found |-> TRUE, email |-> r.email, source_type |-> r.source_type,
                  code |-> r.source_code, order_no |-> r.order_no,
                  invited_at |-> r.invited_at, team_id |-> r.team_id,
                  team_status |-> TeamStatusOf(teams, r.team_id)]

\* What the three warranty operations return, in one shape.
NoWarrantyResult ==
    [kind |-> "none", success |-> FALSE,
     has_warranty |-> FALSE, warranty_valid |-> FALSE,
     warranty_expires_at |-> NoTime, can_reuse |-> FALSE, status |-> "",
     original_code |-> "", team_id |-> NoTeam, error |-> ""]

WarrantyResult(r) == [NoWarrantyResult EXCEPT !.kind = r.kind]

\* warranty.py lines 247-254 (353-359, 456-461): the latest grant of the
\* email, the anchor when there is none.
CurrentOf(ledger, teams, original, lookup_email) ==
    LET current == _get_current_invite_snapshot(ledger, teams, lookup_email)
    IN  IF current.found THEN current ELSE original

\* can_reuse follows the window alone.
check_warranty_status_window_only(r, original, current, at) ==
    LET judgement == _judge_after_sales(original.invited_at, current.team_status, at)
    IN  [WarrantyResult(r) EXCEPT
           !.success = TRUE,
           !.has_warranty = TRUE,
           !.warranty_valid = judgement.warranty_valid,
           !.warranty_expires_at = judgement.expires_at,
           !.can_reuse = judgement.warranty_valid,
           !.status = judgement.status,
           !.original_code = IF original.source_type = "redeem_code"
                               THEN original.code ELSE "",
           !.team_id = current.team_id]

\* warranty.py lines 256-308, with get_now() = at: what
\* check_warranty_status answers from the two snapshots.
check_warranty_status(r, original, current, at) ==
    LET judgement == _judge_after_sales(original.invited_at, current.team_status, at)
    IN  [WarrantyResult(r) EXCEPT
           !.success = TRUE,
           !.has_warranty = TRUE,
           !.warranty_valid = judgement.warranty_valid,
           !.warranty_expires_at = judgement.expires_at,
           !.can_reuse = judgement.can_reuse,
           !.status = judgement.status,
           !.original_code = IF original.source_type = "redeem_code"
                               THEN original.code ELSE "",
           !.team_id = current.team_id]

\* validate_warranty_reuse without the comparison of the two codes.
validate_warranty_reuse_any_code(r, original, current, at) ==
    LET judgement == _judge_after_sales(original.invited_at, current.team_status, at)
        base == [WarrantyResult(r) EXCEPT !.success = TRUE, !.has_warranty = TRUE,
                                          !.team_id = current.team_id]
    IN  IF judgement.status = "expired" THEN [base EXCEPT !.error = "expired"]
        ELSE IF current.team_status # "banned" THEN [base EXCEPT !.error = "not_banned"]
        ELSE IF original.source_type # "redeem_code" \/ Strip(original.code) = ""
          THEN [base EXCEPT !.error = "not_redeem_code"]
        ELSE [base EXCEPT !.can_reuse = TRUE]

\* warranty.py lines 361-406, with get_now() = at: what
\* validate_warranty_reuse answers from the two snapshots.
validate_warranty_reuse(r, original, current, at) ==
    LET judgement == _judge_after_sales(original.invited_at, current.team_status, at)
        original_code == Strip(original.code)
        request_code == Strip(r.code)
        base == [WarrantyResult(r) EXCEPT !.success = TRUE, !.has_warranty = TRUE,
                                          !.team_id = current.team_id]
    IN  IF judgement.status = "expired" THEN [base EXCEPT !.error = "expired"]
        ELSE IF current.team_status # "banned" THEN [base EXCEPT !.error = "not_banned"]
        ELSE IF original.source_type # "redeem_code" \/ original_code = ""
          THEN [base EXCEPT !.error = "not_redeem_code"]
        ELSE IF original_code # request_code
          THEN [base EXCEPT !.error = "other_code"]
        ELSE [base EXCEPT !.can_reuse = TRUE]

\* The refusal that looks at the window and the codes and not at the team.
reinvite_refusal_window_only(r, original, current, at) ==
    LET judgement == _judge_after_sales(original.invited_at, "banned", at)
        original_code == Strip(original.code)
        request_code == Strip(r.code)
    IN  IF judgement.status # "after_sales_available" THEN judgement.status
        ELSE IF request_code # "" /\ original_code # "" /\ request_code # original_code
          THEN "other_code"
        ELSE ""

\* The refusal without the comparison of the two codes.
reinvite_refusal_any_code(r, original, current, at) ==
    LET judgement == _judge_after_sales(original.invited_at, current.team_status, at)
    IN  IF judgement.status # "after_sales_available" THEN judgement.status
        ELSE ""

\* warranty.py lines 463-483: "" when reinvite_after_sales goes on to pick a
\* team, the reason of the refusal otherwise.
reinvite_refusal(r, original, current, at) ==
    LET judgement == _judge_after_sales(original.invited_at, current.team_status, at)
        original_code == Strip(original.code)
        request_code == Strip(r.code)
    IN  IF judgement.status # "after_sales_available" THEN judgement.status
        ELSE IF request_code # "" /\ original_code # "" /\ request_code # original_code
          THEN "other_code"
        ELSE ""

\* The team chosen regardless of status and occupancy.
reinvite_target_any(teams) ==
    CHOOSE t \in DOMAIN teams :
        \A u \in DOMAIN teams : team_expires_at(t) <= team_expires_at(u)

\* warranty.py lines 486-493: the first active team with a free seat in the
\* order of expires_at.
reinvite_target(teams) ==
    LET cand == {t \in DOMAIN teams :
                   /\ teams[t].status = "active"
                   /\ teams[t].current_members < teams[t].max_members}
    IN  IF cand = {} THEN NoTeam
        ELSE CHOOSE t \in cand : \A u \in cand : team_expires_at(t) <= team_expires_at(u)

\* An entry that repeats the source type of the anchor.
reinvite_entry_as_anchor(original, current, team_id, at) ==
    Entry(current.email, original.source_type, original.code, original.order_no,
          team_id, at)

\* warranty.py lines 505-510: the grant add_team_member is asked to make.
reinvite_entry(original, current, team_id, at) ==
    Entry(current.email, "after_sales", "", "", team_id, at)

\* ------------------------------------------------- the warranty operations
\* The teams, e-mail addresses and codes of the warranty specification.
WarrantyTeams == 1..NumWarrantyTeams

\* The e-mail address and the code a warranty request carries.
WarrantyInputs ==
    {[email |-> "a@x.com", code |-> ""],
     [email |-> " A@X.com ", code |-> " CODE1 "],
     [email |-> "a@x.com", code |-> "CODE2"],
     [email |-> "b@x.com", code |-> "CODE2"],
     [email |-> "", code |-> "CODE2"],
     [email |-> "", code |-> ""]}

ReinviteInputs ==
    {[email |-> " A@X.com ", code |-> ""],
     [email |-> "a@x.com", code |-> " CODE1 "],
     [email |-> "a@x.com", code |-> "CODE2"],
     [email |-> "", code |-> "CODE1"]}

\* What a redemption or a paid order records of itself in the ledger.
GrantSources ==
    {[email |-> "a@x.com", source_type |-> "redeem_code", source_code |-> "CODE1",
      order_no |-> ""],
     [email |-> "a@x.com", source_type |-> "payment", source_code |-> "",
      order_no |-> "ORD1"]}

\* The rows redemption_records can hold at start-up: an address as it was
\* typed, a row without its time.
LegacyRows ==
    {Redemption(" A@X.com ", "CODE1", 3, 0),
     Redemption("b@x.com", "CODE2", 2, NoTime)}

\* db_migrations.py lines 139-159: every row of redemption_records has its
\* row in invite_records once the application has started.
Backfill(redemption) ==
    [i \in 1..Len(redemption) |->
        Entry(redemption[i].email, "redeem_code", redemption[i].code, "",
              redemption[i].team_id, redemption[i].redeemed_at)]

\* What the application starts from: nothing; a redemption of earlier days;
\* such a redemption whose team was banned and whose holder was reinvited;
\* such a redemption whose holder paid for another seat.
Histories ==
    {[redemption |-> <<>>, later |-> <<>>, banned |-> {}]}
    \cup {[redemption |-> <<r>>, later |-> <<>>, banned |-> {}] : r \in LegacyRows}
    \cup {[redemption |-> <<Redemption(" A@X.com ", "CODE1", 1, 0)>>,
           later |-> <<Entry(" A@X.com ", "after_sales", "", "", 2, 0)>>,
           banned |-> {1}],
          [redemption |-> <<Redemption(" A@X.com ", "CODE1", 1, 0)>>,
           later |-> <<Entry("a@x.com", "payment", "", "ORD1", 2, 0)>>,
           banned |-> {}]}

MembersOf(ledger, t) ==
    Cardinality({i \in 1..Len(ledger) : ledger[i].team_id = t})

NoWarrantySession ==
    [original |-> NoSnapshot, current |-> NoSnapshot, target |-> NoTeam]

NoWarrantyRequest == [kind |-> "none", email |-> "", code |-> ""]

WarrantyInit ==
    /\ lifespan = Serving
    /\ now = 0
    /\ mapay_key = MerchantKey
    /\ mapay_id = MerchantId
    /\ mapay_domain = SiteDomain
    /\ db_order = [o \in Orders |-> NoOrder]
    /\ \E h \in Histories :
          /\ db_redemption = h.redemption
          /\ db_ledger = Backfill(h.redemption) \o h.later
          /\ db_team = [t \in WarrantyTeams |->
                LET n == MembersOf(db_ledger, t)
                IN  [status |-> IF t \in h.banned THEN "banned"
                                ELSE IF n >= max_members(t) THEN "full"
                                ELSE "active",
                     current_members |-> n,
                     max_members |-> max_members(t)]]
    /\ pc = [p \in Procs |-> "idle"]
    /\ req = [p \in Procs |-> NoWarrantyRequest]
    /\ sess = [p \in Procs |-> NoWarrantySession]
    /\ last = NoWarrantyResult
    /\ invited = [t \in Teams |-> 0]
    /\ granted = [o \in Orders |-> [notify |-> 0, manual |-> 0]]
    /\ calls = 0
    /\ ticks = 0
    /\ judge = NoJudgement
    /\ verify = NoVerification

WarrantyFrame == <<config, lifespan, db_order, db_redemption, invited, granted, judge, verify>>

\* A redemption or a paid order grants a seat and records it: the
\* selection of the team, the seat and the ledger entry in one step.
grant(source) ==
    /\ Len(db_ledger) < MaxLedger
    /\ LET t == reinvite_target(db_team)
       IN  /\ t # NoTeam
           /\ db_team' = [db_team EXCEPT ![t] =
                 [@ EXCEPT !.current_members = @ + 1,
                           !.status = TeamAfterInvite(db_team[t].current_members,
                                                      db_team[t].status,
                                                      db_team[t].max_members).status]]
           /\ db_ledger' = Append(db_ledger,
                 Entry(source.email, source.source_type, source.source_code,
                       source.order_no, t, now))
    /\ UNCHANGED <<WarrantyFrame, now, pc, req, sess, last, calls, ticks>>

\* admin.py lines 214-245: a team in service is found banned or expired.
update_team(t, status) ==
    /\ db_team[t].status \in {"active", "full"}
    /\ db_team' = [db_team EXCEPT ![t].status = status]
    /\ UNCHANGED <<WarrantyFrame, now, db_ledger, pc, req, sess, last, calls, ticks>>

\* routes/warranty.py lines 72-152: a request reaches one of the three
\* operations.
warranty_begin(p, kind, email, code) ==
    /\ pc[p] = "idle"
    /\ \A q \in Procs : q < p => pc[q] # "idle"
    /\ calls < MaxWarrantyCalls
    /\ kind = "reinvite" => Len(db_ledger) <= MaxLedger
    /\ calls' = calls + 1
    /\ pc' = [pc EXCEPT ![p] = "w_original"]
    /\ req' = [req EXCEPT ![p] = [kind |-> kind, email |-> email, code |-> code]]
    /\ sess' = [sess EXCEPT ![p] = NoWarrantySession]
    /\ UNCHANGED <<WarrantyFrame, now, db_team, db_ledger, last, ticks>>

warranty_return(p, result) ==
    /\ pc' = [pc EXCEPT ![p] = "idle"]
    /\ req' = [req EXCEPT ![p] = NoWarrantyRequest]
    /\ sess' = [sess EXCEPT ![p] = NoWarrantySession]
    /\ last' = result
    /\ UNCHANGED <<WarrantyFrame, now, db_team, db_ledger, calls, ticks>>

\* warranty.py lines 217-244, 335-350, 432-453: the checks of the
\* arguments and the first query, the anchor.
warranty_original(p) ==
    /\ pc[p] = "w_original"
    /\ LET r == req[p]
           normalized_email == Normalize(r.email)
           normalized_code == IF r.kind = "check" THEN Strip(r.code) ELSE ""
           original == _get_original_invite_snapshot(db_ledger, db_redemption, db_team,
                                                     normalized_email, normalized_code)
       IN  IF r.kind = "check" /\ r.email = "" /\ r.code = ""
             THEN /\ warranty_return(p, [WarrantyResult(r) EXCEPT !.error = "missing"])
           ELSE IF r.kind = "reinvite" /\ normalized_email = ""
             THEN /\ warranty_return(p, [WarrantyResult(r) EXCEPT !.error = "no_email"])
           ELSE IF ~original.found
             THEN /\ warranty_return(p, [WarrantyResult(r) EXCEPT
                                           !.success = r.kind # "reinvite",
                                           !.error = "not_found"])
           ELSE /\ pc' = [pc EXCEPT ![p] = "w_current"]
                /\ sess' = [sess EXCEPT ![p].original = original]
                /\ UNCHANGED <<WarrantyFrame, now, db_team, db_ledger, req, last,
                               calls, ticks>>

\* warranty.py lines 247-308, 353-406, 456-483: the second query, the
\* current grant, and the judgement at the present instant.
warranty_current(p) ==
    /\ pc[p] = "w_current"
    /\ LET r == req[p]
           original == sess[p].original
           normalized_email == Normalize(r.email)
           lookup_email == IF normalized_email # "" THEN normalized_email
                           ELSE Normalize(original.email)
           current == CurrentOf(db_ledger, db_team, original, lookup_email)
       IN  CASE r.kind = "check" ->
                     warranty_return(p, check_warranty_status(r, original, current, now))
                [] r.kind = "validate" ->
                     warranty_return(p, validate_warranty_reuse(r, original, current, now))
                [] OTHER ->
                     LET refusal == reinvite_refusal(r, original, current, now)
                     IN  IF refusal # ""
                           THEN warranty_return(p, [WarrantyResult(r) EXCEPT
                                                      !.has_warranty = TRUE,
                                                      !.team_id = current.team_id,
                                                      !.error = refusal])
                           ELSE /\ pc' = [pc EXCEPT ![p] = "w_select"]
                                /\ sess' = [sess EXCEPT ![p].current = current]
                                /\ UNCHANGED <<WarrantyFrame, now, db_team, db_ledger,
                                               req, last, calls, ticks>>

\* warranty.py lines 485-500: the third query, the team to invite to.
reinvite_select(p) ==
    /\ pc[p] = "w_select"
    /\ LET target_team == reinvite_target(db_team)
       IN  IF target_team = NoTeam
             THEN /\ warranty_return(p, [WarrantyResult(req[p]) EXCEPT
                                           !.has_warranty = TRUE,
                                           !.team_id = sess[p].current.team_id,
                                           !.error = "no_team"])
             ELSE /\ pc' = [pc EXCEPT ![p] = "w_add"]
                  /\ sess' = [sess EXCEPT ![p].target = target_team]
                  /\ UNCHANGED <<WarrantyFrame, now, db_team, db_ledger, req, last,
                                 calls, ticks>>

\* warranty.py lines 502-534: TeamService.add_team_member makes the grant
\* (the seat is refused when the team has none left, the provider may fail,
\* the seat and the ledger entry are written together) and the result is
\* passed on.
add_team_member(p) ==
    /\ pc[p] = "w_add"
    /\ LET t == sess[p].target
           original == sess[p].original
           base == [WarrantyResult(req[p]) EXCEPT !.has_warranty = TRUE]
       IN  \E provider_ok \in BOOLEAN :
             IF db_team[t].current_members >= db_team[t].max_members \/ ~provider_ok
               THEN /\ last' = [base EXCEPT !.team_id = sess[p].current.team_id,
                                            !.error = "invite_failed"]
                    /\ UNCHANGED <<db_team, db_ledger>>
               ELSE /\ db_team' = [db_team EXCEPT ![t] =
                          [@ EXCEPT !.current_members = @ + 1,
                                    !.status = TeamAfterInvite(db_team[t].current_members,
                                                               db_team[t].status,
                                                               db_team[t].max_members).status]]
                    /\ db_ledger' = Append(db_ledger,
                          reinvite_entry(original, sess[p].current, t, now))
                    /\ last' = [base EXCEPT
                                  !.success = TRUE,
                                  !.team_id = t,
                                  !.warranty_expires_at =
                                      IF original.invited_at = NoTime THEN NoTime
                                      ELSE original.invited_at
                                             + timedelta_days(WARRANTY_DAYS)]
    /\ pc' = [pc EXCEPT ![p] = "idle"]
    /\ req' = [req EXCEPT ![p] = NoWarrantyRequest]
    /\ sess' = [sess EXCEPT ![p] = NoWarrantySession]
    /\ UNCHANGED <<WarrantyFrame, now, calls, ticks>>

\* The instants at which a warranty window ends and the instant after each.
WarrantyInstants ==
    UNION {{db_ledger[i].invited_at + timedelta_days(WARRANTY_DAYS),
            db_ledger[i].invited_at + timedelta_days(WARRANTY_DAYS) + 1} :
             i \in {j \in 1..Len(db_ledger) : db_ledger[j].invited_at # NoTime}}

WarrantyTick ==
    /\ ticks < MaxWarrantyTicks
    /\ \E t \in WarrantyInstants : t > now /\ now' = t
    /\ ticks' = ticks + 1
    /\ UNCHANGED <<WarrantyFrame, db_team, db_ledger, pc, req, sess, last, calls>>

WarrantyNext ==
    \/ \E source \in GrantSources : grant(source)
    \/ \E t \in WarrantyTeams, status \in {"banned", "expired"} :
          update_team(t, status)
    \/ \E p \in Procs, kind \in {"check", "validate"}, input \in WarrantyInputs :
          calls < MaxQueries /\ warranty_begin(p, kind, input.email, input.code)
    \/ \E p \in Procs : warranty_original(p)
    \/ \E p \in Procs : warranty_current(p)
    \/ WarrantyTick

\* The two queries of the warranty service next to grants, bans and time.
SpecWarranty == WarrantyInit /\ [][WarrantyNext]_vars

ReinviteInit ==
    /\ WarrantyInit
    /\ db_redemption # <<>>

ReinviteNext ==
    \/ \E t \in WarrantyTeams, status \in {"banned", "expired"} :
          update_team(t, status)
    \/ \E p \in Procs, input \in ReinviteInputs :
          warranty_begin(p, "reinvite", input.email, input.code)
    \/ \E p \in Procs : warranty_begin(p, "check", "", " CODE1 ")
    \/ \E p \in Procs : warranty_original(p)
    \/ \E p \in Procs : warranty_current(p)
    \/ \E p \in Procs : reinvite_select(p)
    \/ \E p \in Procs : add_team_member(p)
    \/ WarrantyTick

\* Concurrent after-sales reinvites next to bans and time.
SpecReinvite == ReinviteInit /\ [][ReinviteNext]_vars

\* ------------------------------------------- run_auto_migration: the backfill
\* SQL's = on a DATETIME column: a comparison with NULL is not true.
SqlEqual(a, b) == a # NoTime /\ b # NoTime /\ a = b

\* db_migrations.py lines 152-157: the ON clause of the first backfill.
joined(ir, rr) ==
    /\ ir.source_type = "redeem_code"
    /\ ir.source_code = rr.code
    /\ ir.email = rr.email
    /\ ir.team_id = rr.team_id
    /\ SqlEqual(ir.invited_at, rr.redeemed_at)

\* Lines 139-159: a row of invite_records for every row of
\* redemption_records that the join finds no row for; the rows are selected
\* before any is inserted.
backfill_redemptions(ledger, redemption) ==
    LET missing == SelectSeq(redemption,
                             LAMBDA rr : ~\E i \in 1..Len(ledger) : joined(ledger[i], rr))
    IN  ledger \o [k \in 1..Len(missing) |->
                     Entry(missing[k].email, "redeem_code", missing[k].code, "",
                           missing[k].team_id, missing[k].redeemed_at)]

\* COALESCE(po.redeemed_at, po.paid_at, po.created_at) of line 174; an order
\* is created ORDER_EXPIRE_MINUTES before it expires.
backfill_invited_at(order) ==
    IF order.redeemed_at # NoTime THEN order.redeemed_at
    ELSE IF order.paid_at # NoTime THEN order.paid_at
    ELSE order.expires_at - ORDER_EXPIRE_MINUTES

\* The orders in the order of their rows.
OrderRows == <<"ORD1", "ORD2">>

\* Lines 162-182: a payment row for every redeemed order with a team that
\* has no payment row of its order number.
backfill_orders(ledger, orders) ==
    LET missing == SelectSeq(OrderRows,
                             LAMBDA o : /\ orders[o].status = "redeemed"
                                        /\ orders[o].team_id # NoTeam
                                        /\ PaymentEntries(ledger, o) = {})
    IN  ledger \o [k \in 1..Len(missing) |->
                     Entry(Email(missing[k]), "payment", "", missing[k],
                           orders[missing[k]].team_id,
                           backfill_invited_at(orders[missing[k]]))]

\* The rows redemption_records may hold when the application starts.
MigrationRows ==
    {Redemption("a@x.com", "CODE1", 1, 0),
     Redemption("a@x.com", "CODE1", 1, 5),
     Redemption("b@x.com", "CODE2", 2, NoTime)}

\* The rows payment_orders may hold for an order: none, pending, paid,
\* redeemed into a team, redeemed in earlier days without redeemed_at,
\* marked redeemed without a team.
MigrationOrders ==
    {NoOrder,
     [NoOrder EXCEPT !.status = "pending", !.expires_at = 30],
     [NoOrder EXCEPT !.status = "paid", !.expires_at = 30, !.paid_at = 3,
                     !.trade_no = TradeNo],
     [NoOrder EXCEPT !.status = "redeemed", !.expires_at = 30, !.paid_at = 3,
                     !.trade_no = TradeNo, !.redeemed_at = 4, !.team_id = 1],
     [NoOrder EXCEPT !.status = "redeemed", !.expires_at = 30, !.paid_at = 3,
                     !.trade_no = TradeNo, !.team_id = 2],
     [NoOrder EXCEPT !.status = "redeemed", !.expires_at = 30, !.paid_at = 3,
                     !.trade_no = TradeNo, !.redeemed_at = 4]}

\* The database before a start of the application: redemption_records of
\* earlier days, orders, and in invite_records the payment row that
\* handle_notify wrote for ORD1 or nothing.
MigrationInit ==
    /\ lifespan = Serving
    /\ now = 0
    /\ mapay_key = MerchantKey
    /\ mapay_id = MerchantId
    /\ mapay_domain = SiteDomain
    /\ db_redemption \in {<<>>} \cup {<<r>> : r \in MigrationRows}
                           \cup {<<r, s>> : r, s \in MigrationRows}
    /\ db_order \in [Orders -> MigrationOrders]
    /\ db_order["ORD2"].status \in {"none", "redeemed"}
    /\ \E recorded \in BOOLEAN :
          db_ledger = IF recorded /\ db_order["ORD1"].status = "redeemed"
                                  /\ db_order["ORD1"].team_id # NoTeam
                        THEN <<Entry(Email("ORD1"), "payment", "", "ORD1",
                                     db_order["ORD1"].team_id,
                                     backfill_invited_at(db_order["ORD1"]))>>
                        ELSE <<>>
    /\ db_team = [t \in Teams |->
                    [status |-> "active", current_members |-> 0,
                     max_members |-> max_members(t)]]
    /\ pc = [p \in Procs |-> "idle"]
    /\ req = [p \in Procs |-> NoRequest]
    /\ sess = [p \in Procs |-> NoSession]
    /\ last = NoResult
    /\ invited = [t \in Teams |-> 0]
    /\ granted = [o \in Orders |-> [notify |-> 0, manual |-> 0]]
    /\ calls = 0
    /\ ticks = 0
    /\ judge = NoJudgement
    /\ verify = NoVerification

\* main.py lines 146-148, db_migrations.py lines 138-185: one start of the
\* application runs the two backfills and commits; calls counts the starts.
run_auto_migration ==
    /\ calls < MaxMigrations
    /\ calls' = calls + 1
    /\ db_ledger' = backfill_orders(backfill_redemptions(db_ledger, db_redemption),
                                    db_order)
    /\ UNCHANGED <<now, config, lifespan, db_team, db_order, db_redemption, pc, req,
                   sess, last, invited, granted, ticks, judge, verify>>

MigrationNext == run_auto_migration

SpecMigration == MigrationInit /\ [][MigrationNext]_vars

\* ===================================================================== claims
Grants(o) == granted[o].notify + granted[o].manual

EntriesOfTeam(t) == {i \in 1..Len(db_ledger) : db_ledger[i].team_id = t}

Returns(p) == pc[p] # "idle" /\ pc'[p] = "idle"

\* C1: every team keeps 0 <= current_members <= max_members, and no team is
\* granted more seats than it has: of the grant attempts that race for the
\* last free seat of a team, one succeeds and the others fail for capacity.
C1_CapacityInvariant ==
    \A t \in Teams :
        /\ 0 <= db_team[t].current_members
        /\ db_team[t].current_members <= db_team[t].max_members
        /\ invited[t] <= db_team[t].max_members

\* C2: the deliveries of one order's confirmation to handle_notify, in
\* sequence or overlapping, produce at most one grant (one increment of a
\* team's current_members) and at most one payment entry for the order.
C2_IdempotentConfirmation ==
    \A o \in Orders :
        granted[o].manual = 0 =>
            /\ granted[o].notify <= 1
            /\ Cardinality(PaymentEntries(db_ledger, o)) <= 1

\* C3: a verified TRADE_SUCCESS confirmation that finds its order paid or
\* redeemed returns success and changes no order, team or ledger row.
C3_PaidOrRedeemedIsSuccess ==
    [][\A p \in Procs :
          (/\ pc[p] = "n_order"
           /\ Returns(p)
           /\ db_order[req[p].order_no].status \in {"paid", "redeemed"})
          => (last'.success /\ db' = db)]_vars

\* C4: in every committed state a team's current_members equals the number
\* of ledger entries of grants into it: no increment is visible without its
\* entry and no entry without its increment.
C4_LedgerMatchesOccupancy ==
    \A t \in Teams :
        db_team[t].current_members = Cardinality(EntriesOfTeam(t))

\* C5: the ledger holds at most one entry with source_type = payment per
\* order_no, whatever the interleaving of handle_notify and manual_redeem.
C5_OnePaymentEntryPerOrder ==
    \A o \in Orders : Cardinality(PaymentEntries(db_ledger, o)) <= 1

\* C6: a confirmation whose sign is absent or is not the digest of its
\* fields and the merchant key is answered with a failure by handle_notify
\* and leaves every order, team and ledger row unchanged, whatever its other
\* fields and whatever the state of the order it names: the first step of
\* handle_notify lets only a correctly signed confirmation go on to read the
\* order, and a confirmation it does not let go on returns a failure there
\* and then, with no row changed.
C6_BadSignRejected ==
    [][/\ \A p \in Procs :
            (pc[p] = "idle" /\ pc'[p] = "n_order")
            => (/\ GetSign(req'[p].params)
                     = Md5(SignStr(req'[p].params, MerchantKey))
                /\ db' = db)
       /\ (calls' = calls + 1 /\ pc' = pc /\ last'.kind = "notify")
            => (~last'.success /\ db' = db)]_vars

\* C6 case: a TRADE_SUCCESS confirmation with a wrong sign, naming an order
\* that is waiting for its payment, has been rejected for its sign.
C6_Witness ==
    /\ last.kind = "notify"
    /\ last.error = "sign"
    /\ ~last.success
    /\ last.order_no \in Orders
    /\ db_order[last.order_no].status = "pending"

\* C7: an order's status changes only pending -> paid (in handle_notify),
\* paid -> redeemed (after a grant) and pending -> expired (in
\* get_order_status); redeemed and expired are terminal and no order
\* returns to pending.
C7_OrderLifecycle ==
    [][\A o \in Orders :
          LET a == db_order[o].status
              b == db_order'[o].status
          IN  a # b =>
                \/ a = "none" /\ b = "pending"
                \/ /\ a = "pending" /\ b = "paid"
                   /\ \E p \in Procs : req[p].kind = "notify" /\ pc[p] = "n_commit"
                \/ /\ a = "paid" /\ b = "redeemed"
                   /\ Grants(o) > 0
                \/ /\ a = "pending" /\ b = "expired"
                   /\ \E p \in Procs : req[p].kind = "status" /\ pc[p] = "g_commit"]_vars

\* C8: handle_notify marks the order paid before it attempts the grant; when
\* the grant fails (no team, team not active or full, decryption or provider
\* error) the handler returns without touching any row, so an order nobody
\* was granted has no team_id and no ledger entry; a manual_redeem whose
\* invite is the order's only grant commits status redeemed, the team_id of
\* the invite and exactly one payment entry for the order.
C8_FailedGrantThenManualRedeem ==
    [][\A p \in Procs :
          LET o == req[p].order_no IN
          /\ (req[p].kind = "notify" /\ pc[p] = "n_commit" /\ pc'[p] # pc[p])
             => (db_order'[o].status = "paid"
                 /\ db_order'[o].team_id = db_order[o].team_id
                 /\ db_ledger' = db_ledger)
          /\ (req[p].kind = "notify" /\ pc[p] \in {"i_select", "i_team", "i_send"}
                /\ Returns(p))
             => (/\ db' = db
                 /\ last'.invite = "failed"
                 /\ Grants(o) = 0 =>
                      /\ db_order'[o].team_id = NoTeam
                      /\ PaymentEntries(db_ledger', o) = {}
                      /\ db_order'[o].status # "redeemed")
          /\ (req[p].kind = "manual" /\ pc[p] = "r_commit" /\ Returns(p)
                /\ Grants(o) = 1)
             => (/\ last'.success
                 /\ db_order'[o].status = "redeemed"
                 /\ db_order'[o].team_id = sess[p].team_id
                 /\ sess[p].team_id \in Teams
                 /\ Cardinality(PaymentEntries(db_ledger', o)) = 1)]_vars

\* C8 case: the grant of handle_notify failed, leaving the order paid, and a
\* later manual_redeem has redeemed it into a team.
C8_Witness ==
    /\ \A p \in Procs : pc[p] = "idle"
    /\ last.kind = "manual"
    /\ last.success
    /\ last.invite = "sent"
    /\ last.seen = "paid"
    /\ granted[last.order_no] = [notify |-> 0, manual |-> 1]
    /\ db_order[last.order_no].status = "redeemed"
    /\ db_order[last.order_no].team_id = last.team_id
    /\ Cardinality(PaymentEntries(db_ledger, last.order_no)) = 1

\* C9: a verified confirmation that finds its order expired is answered with
\* a failure and changes no row, and an order stored as expired never
\* becomes paid.
C9_ExpiredNeverPaid ==
    [][/\ \A p \in Procs :
            (/\ pc[p] = "n_order"
             /\ Returns(p)
             /\ db_order[req[p].order_no].status = "expired")
            => (~last'.success /\ db' = db)
       /\ \A o \in Orders :
            db_order[o].status = "expired" => db_order'[o].status # "paid"]_vars

\* C10: for a grant made at T the judgement is expired exactly when
\* now > T + 30 days, whatever the team's status; at every now <= T + 30 days,
\* the last instant included, a banned team gives after_sales_available.
C10_WarrantyWindow ==
    (judge.called /\ judge.invited_at # NoTime) =>
        LET window_end == judge.invited_at + 30 * 24 * 60 IN
        /\ (judge.result.status = "expired") <=> (judge.at > window_end)
        /\ (judge.at <= window_end /\ judge.team_status = "banned")
              => judge.result.status = "after_sales_available"

\* C10 case: a banned team judged at exactly T + 30 days.
C10_Witness ==
    /\ judge.called
    /\ judge.invited_at # NoTime
    /\ judge.team_status = "banned"
    /\ judge.at = judge.invited_at + 30 * 24 * 60
    /\ judge.result.status = "after_sales_available"

\* The fields of the seven in which a callback differs from the signed event.
DiffFields(params) == {k \in SignFields : Get(params, k) # RefParams[k]}

WithoutOthers(params) ==
    [k \in DOMAIN params \cap (SignFields \cup {"sign"}) |-> params[k]]

\* C20: _verify_sign accepts a callback exactly when its sign is the MD5
\* digest of money=..&name=..&out_trade_no=..&pid=..&trade_no=..
\* &trade_status=..&type=.. followed by the key, a field that was not sent
\* taken as empty: with the sign of the signed event, a callback is accepted
\* when its seven fields and the key are those that were signed, and
\* rejected when exactly one of the fields, or the key alone, differs; a
\* callback without sign is rejected; sign_type does not change the answer.
C20_VerifySign ==
    verify.called =>
        LET params == verify.params
            key == verify.key
            text == <<"money=">> \o Tok(Get(params, "money"))
                      \o <<"&name=">> \o Tok(Get(params, "name"))
                      \o <<"&out_trade_no=">> \o Tok(Get(params, "out_trade_no"))
                      \o <<"&pid=">> \o Tok(Get(params, "pid"))
                      \o <<"&trade_no=">> \o Tok(Get(params, "trade_no"))
                      \o <<"&trade_status=">> \o Tok(Get(params, "trade_status"))
                      \o <<"&type=">> \o Tok(Get(params, "type"))
                      \o Tok(key)
        IN  /\ verify.result <=> (GetSign(params) = <<"md5", text>>)
            /\ GetSign(params) = <<>> => ~verify.result
            /\ GetSign(params) = RefSign =>
                 /\ (DiffFields(params) = {} /\ key = MerchantKey) => verify.result
                 /\ (Cardinality(DiffFields(params)) = 1 /\ key = MerchantKey)
                      => ~verify.result
                 /\ (DiffFields(params) = {} /\ key # MerchantKey) => ~verify.result
            /\ verify.result = _verify_sign(WithoutOthers(params), key)

\* C20 case: a callback carrying the sign of the signed event and a
\* sign_type, whose trade_no alone was changed, has been rejected.
C20_Witness ==
    /\ verify.called
    /\ GetSign(verify.params) = RefSign
    /\ "sign_type" \in DOMAIN verify.params
    /\ DiffFields(verify.params) = {"trade_no"}
    /\ verify.key = MerchantKey
    /\ ~verify.result

\* C17: create_invite_record for source_type payment and an order_no that
\* already has a payment entry returns success with created = false and the
\* existing entry and leaves the ledger as it is; after any number of calls
\* in sequence for one order_no there is exactly one payment entry for it.
C17_IdempotentAppend ==
    [][\A p \in Procs : \A o \in {"ORD1"} :
          (/\ PaymentEntries(Visible(p), o) # {}
           /\ record_call(p, "payment", o))
          => (/\ last'.success
              /\ ~last'.created
              /\ last'.existing \in PaymentEntries(Visible(p), o)
              /\ db_ledger' = db_ledger
              /\ sess'[p] = RecordStart(p)
              /\ Cardinality(PaymentEntries(db_ledger' \o sess'[p].pending, o)) = 1)]_vars

\* C16: when create_invite_record fails after the invite of handle_notify or
\* manual_redeem was sent, the grant is undone as a whole: the team's
\* current_members and status are again what they were before the grant, the
\* order has no ledger entry and it is still paid.
C16_FailedRecordUndoesGrant ==
    [][\A p \in Procs :
          (pc[p] = "r_record" /\ Returns(p)) =>
             LET o == req[p].order_no
                 t == sess[p].team_id
             IN  /\ ~last'.success
                 /\ db_team'[t].current_members = sess[p].t_members - 1
                 /\ db_team'[t].status = "active"
                 /\ PaymentEntries(db_ledger', o) = {}
                 /\ db_order'[o].status = "paid"]_vars

\* C18: the notify route, for GET and for POST, answers "success" exactly
\* when handle_notify accepted the event, which it does only for an event
\* with trade_status TRADE_SUCCESS and the matching sign, and "fail" in every
\* other case, an exception in the handler included.
C18_NotifyAnswer ==
    [][\A p \in Procs :
          /\ (calls' = calls + 1 /\ pc' = pc /\ last'.kind = "notify")
               => (/\ last'.response = "fail"
                   /\ last'.method \in {"GET", "POST"}
                   /\ ~last'.success)
          /\ (req[p].kind = "notify" /\ Returns(p))
             => (/\ last'.response \in {"success", "fail"}
                 /\ last'.response = "success" <=> last'.success
                 /\ last'.error = "exception" => last'.response = "fail"
                 /\ last'.method = req[p].method
                 /\ last'.response = "success" =>
                      /\ Get(req[p].params, "trade_status") = "TRADE_SUCCESS"
                      /\ GetSign(req[p].params)
                           = Md5(SignStr(req[p].params, MerchantKey)))]_vars

\* C18 case: an event delivered by POST has been accepted, the order it
\* paid is redeemed, and the route answered "success".
C18_Witness ==
    /\ last.kind = "notify"
    /\ last.method = "POST"
    /\ last.response = "success"
    /\ last.invite = "sent"
    /\ db_order[last.order_no].status = "redeemed"

\* ------------------------------------------------------- warranty claims
\* The rows of the ledger that can anchor the warranty of a request: the
\* redemptions and payments of its e-mail address, or, when it names no
\* address, the redemptions of its code.
AnchorRows(ledger, email, code) ==
    {i \in 1..Len(ledger) :
        IF Normalize(email) # ""
          THEN /\ Normalize(ledger[i].email) = Normalize(email)
               /\ ledger[i].source_type \in {"redeem_code", "payment"}
          ELSE /\ Strip(code) # ""
               /\ ledger[i].source_type = "redeem_code"
               /\ ledger[i].source_code = Strip(code)}

\* The rows of the ledger that grant a seat to an e-mail address.
GrantRows(ledger, email) ==
    {i \in 1..Len(ledger) :
        /\ Normalize(ledger[i].email) = Normalize(email)
        /\ ledger[i].source_type \in {"redeem_code", "payment", "after_sales"}}

\* Row i is the most recent of the rows S: no row of S is later, and of the
\* rows of its instant it is the last written.
MostRecent(ledger, S, i) ==
    /\ i \in S
    /\ \A j \in S : \/ ledger[j].invited_at < ledger[i].invited_at
                    \/ (ledger[j].invited_at = ledger[i].invited_at /\ j <= i)

\* The team of the latest grant of an e-mail address is banned right now.
LatestTeamBanned(email) ==
    \E i \in GrantRows(db_ledger, email) :
        /\ MostRecent(db_ledger, GrantRows(db_ledger, email), i)
        /\ db_ledger[i].team_id \in DOMAIN db_team
        /\ db_team[db_ledger[i].team_id].status = "banned"

\* The address whose latest grant a request is judged by.
LookupEmail(r, anchor) ==
    IF Normalize(r.email) # "" THEN Normalize(r.email) ELSE Normalize(anchor.email)

InWindow(anchor, at) ==
    /\ anchor.found
    /\ anchor.invited_at # NoTime
    /\ at <= anchor.invited_at + 30 * 24 * 60

\* C11: check_warranty_status reports can_reuse = true if and only if an
\* anchor grant exists, now <= anchor.invited_at + 30 days and the team of
\* the e-mail address's latest grant is banned; inside the window with a
\* team that is not banned it reports status normal and not eligible; with
\* no anchor, or an anchor without its grant time, it reports not eligible.
C11_CheckWarrantyStatus ==
    [][\A p \in Procs :
         (req[p].kind = "check" /\ Returns(p)) =>
            LET anchor == sess[p].original
                judged == pc[p] = "w_current"
                banned == LatestTeamBanned(LookupEmail(req[p], anchor))
            IN  /\ last'.kind = "check"
                /\ last'.can_reuse <=> (judged /\ InWindow(anchor, now) /\ banned)
                /\ (judged /\ InWindow(anchor, now) /\ ~banned)
                     => (last'.status = "normal" /\ ~last'.can_reuse)
                /\ (~judged \/ anchor.invited_at = NoTime) => ~last'.can_reuse
                /\ ~judged => \/ (req[p].email = "" /\ req[p].code = "")
                              \/ AnchorRows(db_ledger, req[p].email, req[p].code) = {}]_vars

\* A check answered eligible for an address that was reinvited before.
C11_Witness ==
    /\ last.kind = "check"
    /\ last.can_reuse
    /\ \E i \in 1..Len(db_ledger) : db_ledger[i].source_type = "after_sales"

\* The warranty expiry a check of the e-mail address reports on a database.
ReportedWindowEnd(ledger, redemption, teams, email, at) ==
    LET original == _get_original_invite_snapshot(ledger, redemption, teams,
                                                  Normalize(email), "")
        current == CurrentOf(ledger, teams, original, Normalize(email))
    IN  IF original.found
          THEN check_warranty_status([kind |-> "check"], original, current,
                                     at).warranty_expires_at
          ELSE NoTime

\* C12: the anchor of the warranty window is the most recent ledger entry of
\* source_type redeem_code or payment of the e-mail address (of the code,
\* when no address is given), never an after_sales entry; a successful
\* reinvite leaves the window end reported for the address as it was.
C12_AnchorNeverAfterSales ==
    [][\A p \in Procs :
         /\ (pc[p] = "w_original" /\ pc'[p] = "w_current") =>
               LET code == IF req[p].kind = "check" THEN req[p].code ELSE ""
                   S == AnchorRows(db_ledger, req[p].email, code)
                   anchor == sess'[p].original
               IN  \E i \in S :
                     /\ MostRecent(db_ledger, S, i)
                     /\ db_ledger[i].source_type # "after_sales"
                     /\ anchor.found
                     /\ anchor.source_type = db_ledger[i].source_type
                     /\ anchor.email = db_ledger[i].email
                     /\ anchor.code = db_ledger[i].source_code
                     /\ anchor.order_no = db_ledger[i].order_no
                     /\ anchor.team_id = db_ledger[i].team_id
                     /\ anchor.invited_at = db_ledger[i].invited_at
         /\ (pc[p] = "w_add" /\ Returns(p) /\ last'.success) =>
               /\ Len(db_ledger') = Len(db_ledger) + 1
               /\ ReportedWindowEnd(db_ledger', db_redemption', db_team',
                                    req[p].email, now')
                    = ReportedWindowEnd(db_ledger, db_redemption, db_team,
                                        req[p].email, now)
               /\ last'.warranty_expires_at
                    = ReportedWindowEnd(db_ledger, db_redemption, db_team,
                                        req[p].email, now)
               /\ last'.warranty_expires_at = sess[p].original.invited_at + 30 * 24 * 60]_vars

\* A second reinvite of one address has succeeded at the last instant of the
\* window, which still ends where it did.
C12_Witness ==
    /\ last.kind = "reinvite"
    /\ last.success
    /\ now = 30 * 24 * 60
    /\ last.warranty_expires_at = 30 * 24 * 60
    /\ Cardinality({i \in 1..Len(db_ledger) :
                      /\ db_ledger[i].source_type = "after_sales"
                      /\ Normalize(db_ledger[i].email) = "a@x.com"}) = 2
    /\ \E i \in 1..Len(db_ledger) :
          /\ db_ledger[i].source_type = "after_sales"
          /\ db_ledger[i].invited_at = now

\* The status a check of the e-mail address reports on a database.
ReportedStatus(ledger, redemption, teams, email, at) ==
    LET original == _get_original_invite_snapshot(ledger, redemption, teams,
                                                  Normalize(email), "")
        current == CurrentOf(ledger, teams, original, Normalize(email))
    IN  IF original.found
          THEN check_warranty_status([kind |-> "check"], original, current, at).status
          ELSE "none"

\* C13: eligibility is judged by the live status of the team of the most
\* recent redeem_code, payment or after_sales entry of the e-mail address,
\* not by the anchor's team: a reinvite goes on to pick a team, and a check
\* answers eligible, only while that team is banned; after a successful
\* reinvite onto a team that is not banned a check reports normal (as long
\* as the window lasts), and no
\* reinvite of the address succeeds while the team of its latest entry is not
\* banned.
C13_LiveStatusOfLatestGrant ==
    [][\A p \in Procs :
         /\ (pc[p] = "w_current" /\ pc'[p] = "w_select")
               => LatestTeamBanned(req[p].email)
         /\ (pc[p] = "w_current" /\ Returns(p) /\ last'.can_reuse)
               => LatestTeamBanned(LookupEmail(req[p], sess[p].original))
         /\ (pc[p] = "w_add" /\ Returns(p) /\ last'.success
               /\ db_team'[last'.team_id].status # "banned"
               /\ InWindow(sess[p].original, now'))
               => ReportedStatus(db_ledger', db_redemption', db_team',
                                 req[p].email, now') = "normal"
         /\ (pc[p] = "w_add" /\ Returns(p) /\ last'.success)
               => LatestTeamBanned(req[p].email)]_vars

\* The window of an anchor has run out: its grant time is known and now is
\* past grant time + 30 days.
WindowExpired(anchor, at) ==
    /\ anchor.invited_at # NoTime
    /\ at > anchor.invited_at + 30 * 24 * 60

\* C14: validate_warranty_reuse answers can_reuse = true only when the
\* anchor is a redeem_code grant, the window has not expired, the team of the
\* latest grant is banned and the code of the request, trimmed, is the
\* anchor's source code, and it does answer true then; any other code, and
\* an anchor that is a payment, give can_reuse = false.
C14_ValidateWarrantyReuse ==
    [][\A p \in Procs :
         (req[p].kind = "validate" /\ Returns(p)) =>
            LET anchor == sess[p].original
                allowed == /\ pc[p] = "w_current"
                           /\ anchor.found
                           /\ anchor.source_type = "redeem_code"
                           /\ ~WindowExpired(anchor, now)
                           /\ LatestTeamBanned(req[p].email)
                           /\ anchor.code # ""
                           /\ Strip(req[p].code) = anchor.code
            IN  /\ last'.kind = "validate"
                /\ last'.can_reuse <=> allowed
                /\ anchor.source_type = "payment" => ~last'.can_reuse
                /\ (anchor.found /\ Strip(req[p].code) # Strip(anchor.code))
                     => ~last'.can_reuse]_vars

\* A validation has answered true where CODE1 is the only code redeemed:
\* the request carried it with blanks around it.
C14_Witness ==
    /\ last.kind = "validate"
    /\ last.can_reuse
    /\ db_ledger # <<>>
    /\ \A i \in 1..Len(db_ledger) :
          db_ledger[i].source_type = "redeem_code" => db_ledger[i].source_code = "CODE1"

\* The teams a grant may go to: active, with a seat left.
OpenTeams ==
    {t \in DOMAIN db_team :
        /\ db_team[t].status = "active"
        /\ db_team[t].current_members < db_team[t].max_members}

C19_ReinviteTarget ==
    [][\A p \in Procs :
         (pc[p] = "w_select" /\ pc'[p] # "w_select") =>
            /\ pc'[p] = "w_add" <=> OpenTeams # {}
            /\ pc'[p] = "w_add" =>
                  /\ sess'[p].target \in OpenTeams
                  /\ \A u \in OpenTeams :
                        team_expires_at(sess'[p].target) <= team_expires_at(u)
                  /\ db_team[sess'[p].target].status
                        \notin {"full", "banned", "expired", "error"}
            /\ OpenTeams = {} =>
                  /\ Returns(p)
                  /\ last'.kind = "reinvite"
                  /\ ~last'.success
                  /\ last'.error = "no_team"
            /\ db_team' = db_team
            /\ db_ledger' = db_ledger]_vars

\* A reinvite is about to be granted on team 1 although team 2 is open too
\* and expires later.
C19_Witness ==
    \E p \in Procs :
        /\ pc[p] = "w_add"
        /\ sess[p].target = 1
        /\ {1, 2} \subseteq OpenTeams

\* C21: get_order_status changes an order to expired exactly when the order
\* is pending and now > expires_at: a read at now <= expires_at, or of an
\* order that is not pending, writes nothing, and the write of a read turns
\* a pending order whose time has passed into expired and changes no order
\* that is paid, redeemed or expired.
C21_ExpireOnRead ==
    [][/\ (calls' = calls + 1 /\ pc' = pc /\ last'.kind = "status") =>
            LET order == db_order[last'.order_no]
            IN  /\ ~(order.status = "pending" /\ now > order.expires_at)
                /\ db_order' = db_order
       /\ \A p \in Procs :
            /\ (pc[p] = "idle" /\ pc'[p] = "g_commit") =>
                  LET order == db_order[req'[p].order_no]
                  IN  /\ order.status = "pending"
                      /\ now > order.expires_at
                      /\ db_order' = db_order
            /\ (pc[p] = "g_commit" /\ pc'[p] # "g_commit") =>
                  \A o \in Orders :
                     db_order'[o] # db_order[o] =>
                        /\ o = req[p].order_no
                        /\ db_order[o].status = "pending"
                        /\ now > db_order[o].expires_at
                        /\ db_order'[o].status = "expired"]_vars

\* C22: the commit of a successful payment grant raises the team's stored
\* current_members by exactly one and stores status full iff the stored
\* current_members has reached max_members; a grant that leaves a seat free
\* leaves the status active.
C22_GrantIncrementsByOne ==
    [][\A p \in Procs :
         (pc[p] = "i_commit" /\ pc'[p] # "i_commit") =>
            LET t == sess[p].team_id
            IN  /\ db_team'[t].current_members = db_team[t].current_members + 1
                /\ db_team'[t].status = "full"
                     <=> db_team'[t].current_members >= db_team'[t].max_members
                /\ db_team'[t].current_members < db_team'[t].max_members
                     => db_team'[t].status = "active"]_vars

\* C23: the ledger is append-only: every step of handle_notify,
\* manual_redeem, create_invite_record and of the warranty operations leaves
\* each stored ledger entry as it was, so the ledger after a step is the
\* ledger before it followed by the entries the step appended.
C23_LedgerAppendOnly ==
    [][/\ Len(db_ledger') >= Len(db_ledger)
       /\ SubSeq(db_ledger', 1, Len(db_ledger)) = db_ledger]_vars

\* Two grants have been recorded, the second on top of the first.
C23_Witness ==
    /\ Len(db_ledger) = 2
    /\ last.kind \in {"notify", "manual"}
    /\ last.success

\* C24: when send_invite fails during a payment grant, the request ends at
\* that step: the team's current_members and status, the ledger and the
\* order are left as stored (the order is not moved to redeemed), no further
\* invite is sent, and the result carries the provider error.
C24_InviteFailureLeavesState ==
    [][\A p \in Procs :
         (pc[p] = "i_send" /\ pc'[p] # "i_send" /\ invited' = invited) =>
            /\ pc'[p] = "idle"
            /\ db_team' = db_team
            /\ db_ledger' = db_ledger
            /\ db_order' = db_order
            /\ granted' = granted
            /\ last'.order_no = req[p].order_no
            /\ last'.invite = "failed"
            /\ last'.error = "provider"]_vars

\* A grant whose invite failed has returned: the order is still paid, the
\* ledger is empty and no team has a member.
C24_Witness ==
    /\ last.error = "provider"
    /\ last.invite = "failed"
    /\ db_order[last.order_no].status = "paid"
    /\ db_ledger = <<>>
    /\ \A t \in Teams : db_team[t].current_members = 0 /\ db_team[t].status = "active"

\* C25: when the token of the selected team cannot be decrypted, the team
\* is from then on in status error and the grant is not attempted: no invite
\* is sent, and current_members, the ledger and the orders are left as
\* stored.
C25_DecryptFailureMarksTeam ==
    [][\A p \in Procs :
         (pc[p] = "i_team" /\ pc'[p] = "idle" /\ last'.error = "decrypt") =>
            LET t == sess[p].team_id
            IN  /\ db_team'[t].status = "error"
                /\ db_team'[t].current_members = db_team[t].current_members
                /\ db_ledger' = db_ledger
                /\ db_order' = db_order
                /\ invited' = invited]_vars

\* C26: create_order while the merchant id, the key or the site domain is
\* not configured fails and creates no order; handle_notify while no
\* merchant key is configured fails, answers "fail" and changes no order,
\* team or ledger entry.
C26_ConfigMissing ==
    [][/\ (pc' = pc /\ calls' = calls /\ last'.kind = "create"
             /\ (mapay_id = "" \/ mapay_key = "" \/ mapay_domain = "")) =>
            /\ ~last'.success
            /\ last'.error \in {"config", "config_domain"}
            /\ db' = db
       /\ (calls' = calls + 1 /\ mapay_key = "") =>
            /\ pc' = pc
            /\ last'.kind = "notify"
            /\ ~last'.success
            /\ last'.response = "fail"
            /\ db' = db]_vars

\* Without a merchant key, a callback has been answered and then a
\* create_order has been refused, while an order created earlier is stored.
C26_Witness ==
    /\ mapay_key = ""
    /\ calls >= 1
    /\ last.kind = "create"
    /\ last.error = "config"
    /\ db_order["ORD1"].status = "pending"
    /\ db_order["ORD2"].status = "none"

\* The "&" that precedes the pair of key i: there is one when an earlier
\* key has a pair.
Amp(params, i) ==
    IF \E j \in 1..(i - 1) : Get(params, sign_keys[j]) # "" THEN <<"&">> ELSE <<>>

\* The pair of key i, left out when the value is empty.
Pair(params, i) ==
    IF Get(params, sign_keys[i]) = "" THEN <<>>
    ELSE Amp(params, i) \o <<sign_keys[i], "=">> \o Tok(Get(params, sign_keys[i]))

\* The pair of key i, whatever the value.
PairAlways(params, i) ==
    (IF i = 1 THEN <<>> ELSE <<"&">>)
      \o <<sign_keys[i], "=">> \o Tok(Get(params, sign_keys[i]))

\* C27: the outbound order signature is the MD5 of the key=value pairs of
\* money, name, notify_url, out_trade_no, pid, return_url, sitename and type,
\* in that order, joined with "&", every pair whose value is empty left out
\* (sitename among them), followed by the secret key; sign and sign_type
\* take no part.
C27_GenerateSign ==
    verify.called =>
       verify.result =
          Md5(Pair(verify.params, 1) \o Pair(verify.params, 2)
                \o Pair(verify.params, 3) \o Pair(verify.params, 4)
                \o Pair(verify.params, 5) \o Pair(verify.params, 6)
                \o Pair(verify.params, 7) \o Pair(verify.params, 8)
                \o Tok(verify.key))

\* C27 as stated: only sitename is left out when empty; the seven other
\* pairs are always there.
C27_GenerateSign_SitenameOnly ==
    verify.called =>
       verify.result =
          Md5(PairAlways(verify.params, 1) \o PairAlways(verify.params, 2)
                \o PairAlways(verify.params, 3) \o PairAlways(verify.params, 4)
                \o PairAlways(verify.params, 5) \o PairAlways(verify.params, 6)
                \o (IF Get(verify.params, "sitename") = "" THEN <<>>
                    ELSE PairAlways(verify.params, 7))
                \o PairAlways(verify.params, 8)
                \o Tok(verify.key))

\* A request with an empty sitename, an empty type, a sign_type and a sign
\* has been signed.
C27_Witness ==
    /\ verify.called
    /\ {"sitename", "sign", "sign_type"} \subseteq DOMAIN verify.params
    /\ verify.params["sitename"] = ""
    /\ verify.params["type"] = ""
    /\ verify.params["name"] # ""
    /\ verify.result # <<>>

\* Whether entry e lies in the date range of f: at or after 00:00 of
\* start_date and before 00:00 of the day after end_date, for the dates that
\* are dates.
InDateRange(f, e) ==
    /\ strptime(f.start_date) # NoDay =>
          e.invited_at # NoTime
            /\ e.invited_at >= strptime(f.start_date) * MinutesPerDay
    /\ strptime(f.end_date) # NoDay =>
          e.invited_at # NoTime
            /\ e.invited_at < (strptime(f.end_date) + 1) * MinutesPerDay

\* The entries that satisfy the filters of f; a source_type is a filter when
\* it is one of the given types.
Matching(ledger, f, types) ==
    {i \in 1..Len(ledger) :
        /\ f.email # "" => ilike(ledger[i].email, f.email)
        /\ f.source_code # "" => ilike(ledger[i].source_code, f.source_code)
        /\ f.order_no # "" => ilike(ledger[i].order_no, f.order_no)
        /\ f.team_id # 0 => ledger[i].team_id = f.team_id
        /\ f.source_type \in types => ledger[i].source_type = f.source_type
        /\ InDateRange(f, ledger[i])}

\* Result r is page number page of the entries ids of the ledger, newest
\* first.
IsPageOf(r, ledger, ids, page) ==
    LET rec == r.records
        offset == ((IF page < 1 THEN 1 ELSE page) - 1) * PerPage
        rest == Cardinality(ids) - offset
        at(i) == ledger[i].invited_at
    IN  /\ r.success
        /\ r.total = Cardinality(ids)
        /\ Len(rec) = (IF rest < 0 THEN 0 ELSE IF rest < PerPage THEN rest ELSE PerPage)
        /\ \A k \in 1..Len(rec) : rec[k] \in ids
        /\ \A j, k \in 1..Len(rec) : j < k => rec[j] # rec[k] /\ at(rec[j]) >= at(rec[k])
        /\ Len(rec) > 0 =>
              /\ Cardinality({i \in ids : at(i) > at(rec[1])}) <= offset
              /\ Cardinality({i \in ids : at(i) < at(rec[Len(rec)])})
                    <= rest - Len(rec)

\* C28: get_invite_records returns, page by page and newest first by
\* invited_at, exactly the ledger entries that satisfy every filter it was
\* given, where a source_type outside the supported ones and a date that is
\* no date are no filter; an entry is in the date range iff its invited_at
\* is at or after 00:00 of start_date and before 00:00 of the day after
\* end_date.
C28_GetInviteRecords ==
    [][\A p \in Procs :
         (pc[p] = "idle" /\ pc'[p] = "q_stats") =>
            IsPageOf(sess'[p].result, db_ledger,
                     Matching(db_ledger, req'[p].filters, SUPPORTED_INVITE_SOURCE_TYPES),
                     req'[p].page)]_vars

\* C28 as stated: every source_type that is supplied is a filter.
C28_GetInviteRecords_EverySupplied ==
    [][\A p \in Procs :
         (pc[p] = "idle" /\ pc'[p] = "q_stats") =>
            IsPageOf(sess'[p].result, db_ledger,
                     Matching(db_ledger, req'[p].filters,
                              {req'[p].filters.source_type} \ {""}),
                     req'[p].page)]_vars

\* The records of 9 January were asked for: the three entries of that day
\* pass, the one at 00:00 of 10 January does not, and the first page has two.
C28_Witness ==
    \E p \in Procs :
       /\ pc[p] = "q_stats"
       /\ req[p].filters.start_date = "2024-01-09"
       /\ req[p].filters.end_date = "2024-01-09"
       /\ req[p].filters.email = ""
       /\ req[p].filters.source_type = "bogus"
       /\ Len(db_ledger) = 6
       /\ sess[p].result.total = 3
       /\ Len(sess[p].result.records) = 2
       /\ db_ledger[sess[p].result.records[1]].invited_at
             = db_ledger[sess[p].result.records[2]].invited_at

\* C29: get_invite_stats counts over the filtered set of get_invite_records:
\* when the page asks for both with the same filter arguments and the ledger
\* has not changed in between, stats.total is the total of the records; and
\* today, this_week and this_month are at most total, with today at most
\* this_week and at most this_month.
C29_GetInviteStats ==
    [][\A p \in Procs :
         (pc[p] = "q_stats" /\ pc'[p] = "idle") =>
            LET stats == last'.stats IN
            /\ Len(db_ledger) = sess[p].rows => stats.total = sess[p].result.total
            /\ stats.today <= stats.total
            /\ stats.this_week <= stats.total
            /\ stats.this_month <= stats.total
            /\ stats.today <= stats.this_week
            /\ stats.today <= stats.this_month]_vars

\* A filtered page was answered on 2 February over an unchanged ledger:
\* some of the counted entries are of this week, none is of today.
C29_Witness ==
    /\ last.kind = "page"
    /\ now = timedelta_days(32) + 600
    /\ Len(db_ledger) = 6
    /\ last.records.total = 4
    /\ last.stats.total = 4
    /\ last.stats.this_week = 1
    /\ last.stats.this_month = 0
    /\ last.stats.today = 0

\* C30: on shutdown, for each background task that runs, the lifespan sets
\* the task's stop event before it waits for the task, cancels the task only
\* when the task has not finished after the 30 seconds of grace, and never
\* cancels a task that finished; the database is closed only when every
\* task has finished, has been cancelled, or was never created.
C30_Shutdown ==
    [][/\ \A i \in 1..Len(Tasks) :
            /\ (lifespan'.stop_event[i] /\ ~lifespan.stop_event[i]) =>
                  /\ lifespan.task[i] # "none"
                  /\ lifespan'.pc = "wait" /\ lifespan'.current = i
                  /\ lifespan'.elapsed = 0
            /\ (lifespan'.task[i] = "cancelling" /\ lifespan.task[i] # "cancelling") =>
                  /\ lifespan.pc = "wait" /\ lifespan.current = i
                  /\ lifespan.stop_event[i]
                  /\ lifespan.elapsed >= GraceSeconds
                  /\ lifespan.task[i] \in {"waiting", "working"}
            /\ lifespan.task[i] = "finished" => lifespan'.task[i] = "finished"
       /\ (lifespan'.pc = "wait" /\ lifespan.pc # "wait") =>
             lifespan'.stop_event[lifespan'.current]
       /\ (lifespan'.db_closed /\ ~lifespan.db_closed) =>
             \A i \in 1..Len(Tasks) :
                lifespan.task[i] \in {"none", "finished", "cancelled"}]_vars

\* The database is closed after a shutdown in which the first task was
\* cancelled at the end of its grace period and the second finished in time.
C30_Witness ==
    /\ lifespan.db_closed
    /\ lifespan.task[1] = "cancelled"
    /\ lifespan.task[2] = "finished"
    /\ lifespan.stop_event[1]
    /\ lifespan.stop_event[2]

\* C31: for every order, handle_notify and manual_redeem together send at
\* most one successful invite on its behalf: no order has an invite accepted
\* for handle_notify and another one accepted for manual_redeem.
C31_OneGrantPerOrder ==
    \A o \in Orders : ~(granted[o].notify >= 1 /\ granted[o].manual >= 1)

\* C32: in every reachable state, an order stored as redeemed has paid_at,
\* redeemed_at and team_id set and the ledger holds a payment entry of its
\* order number on the order's team; an order stored as pending has neither
\* team_id nor paid_at.
C32_RedeemedOrderHasEntry ==
    \A o \in Orders :
       /\ db_order[o].status = "redeemed" =>
             /\ db_order[o].paid_at # NoTime
             /\ db_order[o].redeemed_at # NoTime
             /\ db_order[o].team_id # NoTeam
             /\ \E i \in PaymentEntries(db_ledger, o) :
                   db_ledger[i].team_id = db_order[o].team_id
       /\ db_order[o].status = "pending" =>
             /\ db_order[o].team_id = NoTeam
             /\ db_order[o].paid_at = NoTime

\* C33: expiry is applied only by get_order_status.  A verified
\* TRADE_SUCCESS confirmation that reads its order as pending marks it paid,
\* commits paid and goes on to the grant whether or not now > expires_at;
\* one that reads the order as expired is refused and writes nothing; and
\* the only step that stores expired is the commit of get_order_status.
C33_LatePaymentAccepted ==
    [][\A p \in Procs :
         /\ (pc[p] = "n_order" /\ pc'[p] # "n_order") =>
               LET order == db_order[req[p].order_no] IN
               /\ order.status = "pending" =>
                     \/ pc'[p] = "idle" /\ last'.error = "exception"
                     \/ /\ pc'[p] = "n_commit"
                        /\ sess'[p].o_status = "paid"
                        /\ sess'[p].paid_at = now
               /\ order.status = "expired" =>
                     /\ pc'[p] = "idle"
                     /\ ~last'.success
                     /\ db' = db
         /\ (pc[p] = "n_commit" /\ pc'[p] # "n_commit") =>
               /\ db_order'[req[p].order_no].status = "paid"
               /\ db_order'[req[p].order_no].paid_at = sess[p].paid_at
               /\ pc'[p] = "i_select"
         /\ (\E o \in Orders : /\ db_order'[o].status = "expired"
                               /\ db_order[o].status # "expired")
               => \E q \in Procs : pc[q] = "g_commit" /\ pc'[q] = "idle"]_vars

\* A confirmation that arrived after expires_at was accepted: the order was
\* paid late and its grant has been made.
C33_Witness ==
    \E o \in Orders :
       /\ db_order[o].status = "redeemed"
       /\ db_order[o].paid_at > db_order[o].expires_at
       /\ granted[o].notify = 1
       /\ last.kind = "notify" /\ last.order_no = o /\ last.success

\* C34: reinvite_after_sales goes on to its grant only when the anchor of
\* the e-mail address exists with its window open, the team of the address's
\* latest grant is banned, and the code of the request, when both it and the
\* anchor's code are given, is the anchor's code; whenever
\* validate_warranty_reuse answers can_reuse = true for the same address and
\* code on an anchor whose grant time is known, reinvite_after_sales goes on
\* to its grant too.  A request without a code, and an anchor that is a
\* payment, pass although validate_warranty_reuse answers false for them.
C34_ReinviteEligibility ==
    [][\A p \in Procs :
         (req[p].kind = "reinvite" /\ pc[p] = "w_current" /\ pc'[p] # "w_current") =>
            LET anchor == sess[p].original
                current == CurrentOf(db_ledger, db_team, anchor, Normalize(req[p].email))
                validated == validate_warranty_reuse(req[p], anchor, current, now)
            IN  /\ pc'[p] = "w_select" =>
                      /\ InWindow(anchor, now)
                      /\ LatestTeamBanned(req[p].email)
                      /\ \/ Strip(req[p].code) = ""
                         \/ Strip(anchor.code) = ""
                         \/ Strip(req[p].code) = Strip(anchor.code)
                /\ (validated.can_reuse /\ anchor.invited_at # NoTime)
                      => pc'[p] = "w_select"]_vars

\* C34 as stated: reinvite_after_sales goes on to its grant only if
\* validate_warranty_reuse answers can_reuse = true for the same e-mail
\* address and code.
C34_ReinviteOnlyIfValidated ==
    [][\A p \in Procs :
         (req[p].kind = "reinvite" /\ pc[p] = "w_current" /\ pc'[p] = "w_select") =>
            LET anchor == sess[p].original
                current == CurrentOf(db_ledger, db_team, anchor, Normalize(req[p].email))
            IN  validate_warranty_reuse(req[p], anchor, current, now).can_reuse]_vars

\* A reinvite has been granted to an address whose anchor is a payment.
C34_Witness ==
    /\ last.kind = "reinvite"
    /\ last.success
    /\ Len(db_ledger) = 3
    /\ db_ledger[2].source_type = "payment"
    /\ db_ledger[3].source_type = "after_sales"
    /\ db_ledger[3].team_id = last.team_id
    /\ db_team[db_ledger[2].team_id].status = "banned"

\* C35: one ban yields at most one after_sales grant, also when
\* reinvite_after_sales requests for the address overlap: for every e-mail
\* address, the teams it was given an after_sales seat on are no more than
\* the banned teams it was granted a seat on.
C35_OneReinvitePerBan ==
    \A email \in {"a@x.com", "b@x.com"} :
       LET rows == GrantRows(db_ledger, email)
           after_sales == {db_ledger[i].team_id :
                             i \in {j \in rows : db_ledger[j].source_type = "after_sales"}}
           banned == {t \in DOMAIN db_team :
                        /\ db_team[t].status = "banned"
                        /\ \E i \in rows : db_ledger[i].team_id = t}
       IN  Cardinality(after_sales) <= Cardinality(banned)

\* C36: reinvite_after_sales rejects a request whose e-mail address is
\* empty, whose address has no anchor, whose window has expired, whose latest
\* team is not banned, or whose code differs from the anchor's code (both
\* given); a rejection returns a failure before any team is selected or
\* invited to, and leaves every team and the ledger unchanged.
C36_ReinviteRejection ==
    [][\A p \in Procs :
         /\ (req[p].kind = "reinvite" /\ pc[p] = "w_original" /\ pc'[p] # "w_original") =>
               (Normalize(req[p].email) = ""
                  \/ AnchorRows(db_ledger, req[p].email, "") = {})
               <=> Returns(p)
         /\ (req[p].kind = "reinvite" /\ pc[p] = "w_current" /\ pc'[p] # "w_current") =>
               LET anchor == sess[p].original IN
               (\/ WindowExpired(anchor, now)
                \/ ~LatestTeamBanned(req[p].email)
                \/ /\ Strip(req[p].code) # ""
                   /\ Strip(anchor.code) # ""
                   /\ Strip(req[p].code) # Strip(anchor.code))
               => Returns(p)
         /\ (req[p].kind = "reinvite" /\ pc[p] \in {"w_original", "w_current"}
               /\ Returns(p)) =>
               /\ last'.kind = "reinvite"
               /\ ~last'.success
               /\ last'.error \in {"no_email", "not_found", "expired", "normal",
                                   "unknown", "other_code"}
               /\ db_team' = db_team
               /\ db_ledger' = db_ledger
               /\ invited' = invited]_vars

\* A reinvite was rejected for a code that is not the anchor's, with the
\* team of the anchor banned and the window open; nothing was granted.
C36_Witness ==
    /\ last.kind = "reinvite"
    /\ ~last.success
    /\ last.error = "other_code"
    /\ Len(db_ledger) = 1
    /\ db_ledger[1].source_code = "CODE1"
    /\ db_team[db_ledger[1].team_id].status = "banned"
    /\ \A t \in DOMAIN db_team :
          db_team[t].current_members = MembersOf(db_ledger, t)

\* C37: manual_redeem on an order that is not stored as paid (pending,
\* redeemed, expired, or no such order) returns a failure at once and
\* changes no order, team or ledger entry and sends no invite; it goes on to
\* a grant only for an order it read as paid; and no invite is sent through
\* manual_redeem for an order that is stored as redeemed.
C37_ManualRedeemOnlyPaid ==
    [][/\ (calls' = calls + 1 /\ pc' = pc /\ last'.kind = "manual") =>
            /\ db_order[last'.order_no].status # "paid"
            /\ ~last'.success
            /\ last'.invite = "none"
            /\ db' = db
            /\ invited' = invited
            /\ granted' = granted
       /\ \A p \in Procs :
            (pc[p] = "idle" /\ pc'[p] # "idle" /\ req'[p].kind = "manual") =>
               /\ db_order[req'[p].order_no].status = "paid"
               /\ pc'[p] = "i_select"
       /\ \A o \in Orders :
            granted'[o].manual > granted[o].manual =>
               db_order[o].status # "redeemed"]_vars

\* C38: once its stop event is set, a background loop starts no further run
\* of its job and terminates: a loop that is waiting leaves without running
\* the job, a loop inside a run leaves when that run has ended (or is
\* cancelled by the shutdown), and a loop that has ended stays ended.
C38_StopEndsLoops ==
    /\ [][\A i \in 1..Len(Tasks) :
            lifespan.stop_event[i] =>
               /\ lifespan'.task[i] = "working" => lifespan.task[i] = "working"
               /\ (lifespan.task[i] = "waiting" /\ lifespan'.task[i] # "waiting")
                     => lifespan'.task[i] \in {"finished", "cancelling"}
               /\ (lifespan.task[i] = "working" /\ lifespan'.task[i] # "working")
                     => lifespan'.task[i] \in {"finished", "cancelling"}
               /\ lifespan.task[i] \in {"finished", "cancelled"}
                     => lifespan'.task[i] = lifespan.task[i]]_vars
    /\ \A i \in 1..Len(Tasks) :
          lifespan.stop_event[i] ~> lifespan.task[i] \in {"finished", "cancelled"}

\* Both loops have ended on their stop events, the second one some time
\* after its event was set: it was inside a run of its job.
C38_Witness ==
    /\ lifespan.pc = "wait"
    /\ lifespan.current = 2
    /\ lifespan.elapsed = GraceStep
    /\ \A i \in 1..Len(Tasks) :
          lifespan.stop_event[i] /\ lifespan.task[i] = "finished"
    /\ lifespan.outcome[2] # "none"

\* C39: a run of the job that returns a failure or raises an exception does
\* not end its loop: while the stop event is not set (and the task is
\* therefore not cancelled) the loop waits for its next run after every run,
\* whatever the outcome, and performs that run; and a step of one loop never
\* changes the other loop.
C39_FailedRunKeepsLoop ==
    /\ [][\A i \in 1..Len(Tasks) :
            /\ (lifespan.task[i] = "working" /\ lifespan'.task[i] # "working"
                  /\ ~lifespan.stop_event[i]) =>
                  /\ lifespan'.task[i] = "waiting"
                  /\ lifespan'.outcome[i] \in JobOutcomes
                  /\ ~lifespan'.stop_event[i]
            /\ (~lifespan.stop_event[i] /\ lifespan.task[i] \in {"waiting", "working"})
                  => lifespan'.task[i] \in {"waiting", "working", "none"}
            /\ lifespan'.outcome[i] # lifespan.outcome[i] =>
                  \A j \in 1..Len(Tasks) \ {i} :
                     /\ lifespan'.task[j] = lifespan.task[j]
                     /\ lifespan'.outcome[j] = lifespan.outcome[j]]_vars
    /\ \A i \in 1..Len(Tasks) :
          (lifespan.task[i] = "waiting"
             /\ lifespan.outcome[i] \in {"failure", "exception"})
          ~> (lifespan.task[i] = "working" \/ lifespan.stop_event[i])

\* The first loop is in a run that follows a run that raised, the second in
\* a run that follows a run that returned a failure.
C39_Witness ==
    /\ lifespan.pc = "serving"
    /\ lifespan.task[1] = "working" /\ lifespan.outcome[1] = "exception"
    /\ lifespan.task[2] = "working" /\ lifespan.outcome[2] = "failure"
    /\ \A i \in 1..Len(Tasks) : ~lifespan.stop_event[i]

\* C40: the backfill of run_auto_migration is idempotent: a run that follows
\* another run on the same redemption records and orders adds no row to the
\* ledger, and after every run the ledger holds at most one payment entry
\* per order number.
C40_BackfillIdempotent ==
    [][calls' = calls + 1 =>
         /\ calls >= 1 => db_ledger' = db_ledger
         /\ \A o \in Orders : Cardinality(PaymentEntries(db_ledger', o)) <= 1]_vars

=========================================================================
